---- MODULE Spec2Model ----
(***************************************************************************)
(* A model of the protobuf-super-lite codec: the size engine, the          *)
(* serializer and the parser of pb/codec, driven through pb::Serialize,    *)
(* pb::ComputeSerializedSize and pb::MergeFromBuffer.                       *)
(*                                                                         *)
(* Machine integers are bit vectors: a sequence of 0/1 of the type's       *)
(* width, least significant bit first.  A buffer is a sequence of bytes    *)
(* (0..255); a pointer into it is an offset 0..Len(buffer).                *)
(***************************************************************************)
EXTENDS Integers, Sequences, FiniteSets, TLC

----------------------------------------------------------------------------
(* pb/codec/limits.h and the sentinels of pb/codec/serialize.h *)

kMaxSerializedSize == 67108864

kMaxMessageNestingDepth == 100

kWouldSerializeTooManyBytes == kMaxSerializedSize + 1

kWouldSerializeTooDeeply == kMaxSerializedSize + 2

(* pb/codec/wire_type.h: enum class WireType *)
kVarint == 0

kFixed64Bit == 1

kLengthDelimited == 2

kStartGroup == 3

kEndGroup == 4

kFixed32Bit == 5

kReserved1 == 6

kReserved2 == 7

kNumWireTypeBits == 3

(* The null pointer a failed ParseValue returns. *)
NULLPTR == -1

(* The outcome of a parse that dereferenced a byte outside [buffer,        *)
(* buffer_end): undefined behaviour in the program, kept apart from every  *)
(* defined result.                                                         *)
OutOfBounds == -2

----------------------------------------------------------------------------
(* Bit vectors *)

Min(a, b) == IF a < b THEN a ELSE b

Max(a, b) == IF a > b THEN a ELSE b

(* |Body| of |value|: value is evaluated once, as a local variable is. *)
With(value, Body(_)) == Body(value)

(* The same sequence, built element by element. *)
Eager(f) == SubSeq(f, 1, Len(f))

Zero(w) == Eager([i \in 1..w |-> 0])

(* The w-bit pattern of a natural below 2^31. *)
NatBits(n, w) == Eager([i \in 1..w |-> IF i > 31 THEN 0 ELSE (n \div (2 ^ (i - 1))) % 2])

(* The w-bit two's complement pattern of an integer of the 32-bit range. *)
IntBits(n, w) == IF n >= 0 THEN NatBits(n, w)
                 ELSE Eager([i \in 1..w |-> 1 - NatBits((-n) - 1, w)[i]])

RECURSIVE BitsVal(_, _)
BitsVal(b, i) == IF i > Len(b) THEN 0 ELSE b[i] + 2 * BitsVal(b, i + 1)

(* The value of a bit vector whose bits from the 32nd on are clear. *)
ToNat(b) == BitsVal(SubSeq(b, 1, Min(Len(b), 31)), 1)

FitsNat(b) == \A i \in 32..Len(b) : b[i] = 0

(* static_cast to an unsigned type of w bits. *)
Trunc(b, w) == Eager([i \in 1..w |-> IF i <= Len(b) THEN b[i] ELSE 0])

(* Conversion of a signed value to a wider type. *)
SignExtend(b, w) == Eager([i \in 1..w |-> IF i <= Len(b) THEN b[i] ELSE b[Len(b)]])

ShiftRight(b, n) == Eager([i \in 1..Len(b) |-> IF i + n <= Len(b) THEN b[i + n] ELSE 0])

ShiftRightArithmetic(b, n) ==
    Eager([i \in 1..Len(b) |-> IF i + n <= Len(b) THEN b[i + n] ELSE b[Len(b)]])

ShiftLeft(b, n) == Eager([i \in 1..Len(b) |-> IF i > n THEN b[i - n] ELSE 0])

BitXor(a, b) == Eager([i \in 1..Len(a) |-> (a[i] + b[i]) % 2])

BitOr(a, b) == Eager([i \in 1..Len(a) |-> Max(a[i], b[i])])

BitAnd(a, b) == Eager([i \in 1..Len(a) |-> a[i] * b[i]])

BitNot(a) == Eager([i \in 1..Len(a) |-> 1 - a[i]])

(* a + 1 modulo 2^Len(a). *)
PlusOne(a) == Eager([i \in 1..Len(a) |->
                 IF \A j \in 1..(i - 1) : a[j] = 1 THEN 1 - a[i] ELSE a[i]])

(* static_cast<uint8_t>(value), as a number. *)
LowByte(b) == ToNat(Trunc(b, 8))

(* value >= 128 *)
AtLeast128(b) == \E i \in 8..Len(b) : b[i] = 1

IsNegative(b) == b[Len(b)] = 1

----------------------------------------------------------------------------
(* pb/codec/zigzag.h *)

(* An encoding whose right shift brings in zeros, not the sign. *)
EncodeZigZagUnsignedShift(n) ==
    BitXor(ShiftLeft(n, 1), ShiftRight(n, Len(n) - 1))

EncodeZigZag(n) ==
    LET all_bits_set_if_negative_value == ShiftRightArithmetic(n, Len(n) - 1)
    IN  BitXor(ShiftLeft(n, 1), all_bits_set_if_negative_value)

(* The magnitude alone, without the sign that the low bit carries. *)
DecodeZigZagMagnitude(bits) == ShiftRight(bits, 1)

DecodeZigZag(bits) ==
    BitXor(ShiftRight(bits, 1),
           PlusOne(BitNot(BitAnd(bits, NatBits(1, Len(bits))))))

----------------------------------------------------------------------------
(* Field types.  A type is a record with a kind k:                         *)
(*   uint, int (w bits), bool, enum (w bits, signed or not), sint (zigzag, *)
(*   w bits), fixed (w bits: fixed/sfixed wrappers, float, double),        *)
(*   string, string_view, message (by name), pair (first, second),         *)
(*   optional / unique_ptr (of), vector (of).                              *)
(* The size engine reads only the size of a string and only the element    *)
(* count of a packed container of fixed-size elements: a string_of_size    *)
(* is a std::string and a vector_of_size a std::vector given by that       *)
(* number alone, for the sizes near kMaxSerializedSize.                    *)
(* A value is: a bit vector (uint, int, enum, sint, fixed); a BOOLEAN;     *)
(* a byte sequence (string); <<>> for a null string_view, empty optional   *)
(* or null unique_ptr, and <<x>> for one holding x; the sequence of the    *)
(* field values in FieldList order (message); <<first, second>> (pair);    *)
(* the sequence of the elements (vector).                                  *)

TUInt(w) == [k |-> "uint", w |-> w]

TInt(w) == [k |-> "int", w |-> w]

TBool == [k |-> "bool"]

TEnum(w, signed) == [k |-> "enum", w |-> w, signed |-> signed]

TSInt(w) == [k |-> "sint", w |-> w]

TFixed(w) == [k |-> "fixed", w |-> w]

TString == [k |-> "string"]

TStringView == [k |-> "string_view"]

TMessage(name) == [k |-> "message", name |-> name]

TPair(first, second) == [k |-> "pair", first |-> first, second |-> second]

TOptional(T) == [k |-> "optional", of |-> T]

TUniquePtr(T) == [k |-> "unique_ptr", of |-> T]

(* A sequence container; |unique| tells the containers of unique keys. *)
TVector(T) == [k |-> "vector", of |-> T, unique |-> FALSE]

(* std::map<K, V>: a container of std::pair<const K, V> with unique keys,  *)
(* in the order of the keys.                                               *)
TMap(K, V) == [k |-> "vector", of |-> TPair(K, V), unique |-> TRUE]

TStringOfSize == [k |-> "string_of_size"]

TVectorOfSize(T) == [k |-> "vector_of_size", of |-> T]

Field(T, field_number) == [num |-> field_number, type |-> T]

VarintKinds == {"uint", "int", "bool", "enum", "sint"}

(* parse_unittest.cc, TooDeeplyNestedMessages: Field<&Message::next, 1> *)
kNextFieldNumber == 1

(* The record types of the model: the FieldList of each, by name. *)
ProtobufFields(name) ==
    CASE name = "Chain" ->
           << Field(TUniquePtr(TMessage("Chain")), kNextFieldNumber) >>
      [] name = "EmptyMessage" -> << >>
      [] name = "Thing" -> << Field(TInt(32), 1) >>
      [] name = "NestedMessage" ->
           << Field(TOptional(TString), 1), Field(TInt(32), 2) >>
      [] name = "Scalars" ->
           << Field(TUInt(64), 1), Field(TInt(32), 2), Field(TSInt(32), 3),
              Field(TBool, 4), Field(TEnum(32, FALSE), 5), Field(TFixed(64), 6),
              Field(TFixed(32), 7), Field(TString, 8) >>
      [] name = "Sparse" -> << Field(TInt(32), 2), Field(TString, 8) >>
      [] name = "Records" ->
           << Field(TMessage("NestedMessage"), 1),
              Field(TUniquePtr(TMessage("NestedMessage")), 2),
              Field(TOptional(TMessage("Thing")), 3),
              Field(TOptional(TFixed(32)), 4),
              Field(TStringView, 5) >>
      [] name = "Repeats" ->
           << Field(TVector(TInt(32)), 1), Field(TVector(TFixed(64)), 2),
              Field(TVector(TString), 3),
              Field(TVector(TUniquePtr(TMessage("Thing"))), 4),
              Field(TVector(TPair(TInt(32), TString)), 5) >>
      [] name = "Elements" ->
           << Field(TVector(TOptional(TInt(32))), 1),
              Field(TVector(TUniquePtr(TMessage("Thing"))), 2),
              Field(TVector(TStringView), 3) >>
      [] name = "Maps" -> << Field(TMap(TInt(32), TInt(32)), 1) >>
      [] name = "Message_V1" -> << Field(TInt(32), 1) >>
      [] name = "Message_V2" ->
           << Field(TInt(32), 1), Field(TOptional(TString), 2) >>
      [] name = "Optional_V1" ->
           << Field(TOptional(TString), 1),
              Field(TOptional(TMessage("NestedMessage")), 2) >>
      [] name = "Repeated_V2" ->
           << Field(TVector(TString), 1),
              Field(TVector(TMessage("NestedMessage")), 2) >>
      [] name = "TooBig" -> << Field(TStringOfSize, 1) >>
      [] name = "TooBigPacked" -> << Field(TVectorOfSize(TFixed(64)), 1) >>
      [] name = "TooBigPacked32" -> << Field(TVectorOfSize(TFixed(32)), 1) >>
      [] name = "TooBigNested" -> << Field(TMessage("TooBig"), 1) >>
      [] name = "TooBigBoxed" ->
           << Field(TUniquePtr(TMessage("TooBigNested")), 1),
              Field(TStringOfSize, 2) >>
      [] name = "TooBigRepeated" -> << Field(TVector(TStringOfSize), 1) >>

(* MapFieldEntryFacade<Pair>::ProtobufFields, and Message::ProtobufFields. *)
FieldsOf(T) ==
    IF T.k = "pair" THEN << Field(T.first, 1), Field(T.second, 2) >>
    ELSE ProtobufFields(T.name)

(* The type a std::optional or std::unique_ptr holds; any other type itself. *)
Inner(T) == IF T.k \in {"optional", "unique_ptr"} THEN T.of ELSE T

(* The underlying integral type of an enum. *)
Underlying(T) == [k |-> IF T.signed THEN "int" ELSE "uint", w |-> T.w]

RECURSIVE GetWireType(_)
GetWireType(T) ==
    CASE T.k \in VarintKinds -> kVarint
      [] T.k = "fixed" -> IF T.w = 64 THEN kFixed64Bit ELSE kFixed32Bit
      [] T.k \in {"string", "string_view", "string_of_size", "message", "pair"} ->
           kLengthDelimited
      [] T.k \in {"optional", "unique_ptr"} -> GetWireType(T.of)

IsRepeatedField(T) == T.k \in {"vector", "vector_of_size"}

(* A rule that packs the varints alone. *)
CanEncodeVarintsAsAPackedRepeatedField(T) ==
    IF IsRepeatedField(T) THEN T.of.k \in VarintKinds ELSE FALSE

CanEncodeAsAPackedRepeatedField(T) ==
    IF IsRepeatedField(T) THEN T.of.k \in VarintKinds \cup {"fixed"} ELSE FALSE

(* A test that takes a std::string_view of no bytes for a null one. *)
IsStoringOneValueOfSomeBytes(T, v) ==
    IF T.k \in {"optional", "unique_ptr"} THEN v # << >>
    ELSE IF T.k = "string_view" THEN v # << >> /\ v[1] # << >>
    ELSE TRUE

IsStoringOneValue(T, v) ==
    IF T.k \in {"optional", "unique_ptr", "string_view"} THEN v # << >> ELSE TRUE

GetTheOneValue(T, v) ==
    IF T.k \in {"optional", "unique_ptr"} THEN v[1] ELSE v

(* A value-initialized object of the type (T{}). *)
RECURSIVE DefaultValue(_)
DefaultValue(T) ==
    CASE T.k \in {"uint", "int", "enum", "sint", "fixed"} -> Zero(T.w)
      [] T.k = "bool" -> FALSE
      [] T.k \in {"string", "string_view", "optional", "unique_ptr", "vector"} -> << >>
      [] T.k \in {"string_of_size", "vector_of_size"} -> 0
      [] T.k \in {"message", "pair"} ->
           Eager([i \in 1..Len(FieldsOf(T)) |-> DefaultValue(FieldsOf(T)[i].type)])

(* std::less of two keys that are signed integers. *)
KeyLess(a, b) ==
    IF IsNegative(a) # IsNegative(b) THEN IsNegative(a)
    ELSE ToNat(SubSeq(a, 1, Len(a) - 1)) < ToNat(SubSeq(b, 1, Len(b) - 1))

(* The pairs of |elements|, whose keys differ, in the order of the keys. *)
InKeyOrder(elements) ==
    Eager([n \in 1..Len(elements) |->
             elements[CHOOSE j \in 1..Len(elements) :
                        Cardinality({i \in 1..Len(elements) :
                                       KeyLess(elements[i][1], elements[j][1])})
                          = n - 1]])

(* The objects the writers below hold: Sample(T, 0) is the                 *)
(* value-initialized object, and Sample(T, k) for k > 0 are objects whose  *)
(* encodings differ in length and in sign: varints of one, two, five and   *)
(* ten bytes, strings with NUL and high bytes, an optional or unique_ptr   *)
(* that holds a value for odd k and none for even k, a container of k      *)
(* elements.                                                               *)
RECURSIVE Sample(_, _)
Sample(T, k) ==
    IF k = 0 THEN DefaultValue(T)
    ELSE
    CASE T.k = "uint" -> ShiftLeft(NatBits(k, T.w), 31 * (k - 1))
      [] T.k = "int" ->
           IF k % 2 = 0 THEN IntBits(0 - (k \div 2), T.w) ELSE NatBits(150 * k, T.w)
      [] T.k = "sint" ->
           IF k % 2 = 0 THEN ShiftLeft(NatBits(1, T.w), T.w - 1)
           ELSE IntBits(0 - k, T.w)
      [] T.k = "bool" -> k % 2 = 1
      [] T.k = "enum" -> NatBits(128 * k, T.w)
      [] T.k = "fixed" -> BitNot(NatBits(k - 1, T.w))
      [] T.k = "string" -> Eager([j \in 1..k |-> ((j - 1) * 127) % 256])
      [] T.k = "string_view" -> << Sample(TString, k - 1) >>
      [] T.k \in {"optional", "unique_ptr"} ->
           IF k % 2 = 0 THEN << >> ELSE << Sample(T.of, k - 1) >>
      [] T.k = "vector" ->
           IF T.unique THEN InKeyOrder(Eager([j \in 1..k |-> Sample(T.of, j)]))
           ELSE Eager([j \in 1..k |-> Sample(T.of, j)])
      [] T.k = "pair" -> << Sample(T.first, k), Sample(T.second, k) >>
      [] T.k = "message" ->
           Eager([i \in 1..Len(FieldsOf(T)) |-> Sample(FieldsOf(T)[i].type, k)])

----------------------------------------------------------------------------
(* pb/codec/tag.h *)

MakeTag(field_number, wire_type) ==
    BitOr(ShiftLeft(NatBits(field_number, 32), kNumWireTypeBits),
          NatBits(wire_type, 32))

GetTagForSerialization(F) ==
    IF CanEncodeAsAPackedRepeatedField(F.type)
    THEN MakeTag(F.num, kLengthDelimited)
    ELSE IF IsRepeatedField(F.type)
    THEN MakeTag(F.num, GetWireType(F.type.of))
    ELSE MakeTag(F.num, GetWireType(F.type))

(* The wire type taken from two bits of the tag. *)
GetWireTypeFromTagOfTwoBits(tag) == ToNat(Trunc(tag, 2))

GetWireTypeFromTag(tag) == ToNat(Trunc(tag, kNumWireTypeBits))

GetFieldNumberFromTag(tag) == ToNat(ShiftRight(tag, kNumWireTypeBits))

----------------------------------------------------------------------------
(* pb/codec/serialize.h: the size engine *)

(* ComputeSerializedValueSize(UnsignedIntegral): the length of a varint. *)
RECURSIVE ComputeSerializedValueSizeUnsigned(_)
ComputeSerializedValueSizeUnsigned(value) ==
    IF AtLeast128(value)
    THEN 1 + ComputeSerializedValueSizeUnsigned(ShiftRight(value, 7))
    ELSE 1

(* The varint length of the bits of a signed value, not sign-extended. *)
ComputeSerializedValueSizeNotExtended(value) ==
    ComputeSerializedValueSizeUnsigned(value)

(* ComputeSerializedValueSize(SignedIntegral) *)
ComputeSerializedValueSizeSigned(value) ==
    IF IsNegative(value) THEN 10 ELSE ComputeSerializedValueSizeUnsigned(value)

(* ComputeSerializedValueSize(String), from string.size() alone. *)
ComputeSerializedValueSizeString(size) ==
    LET varint_byte_count == ComputeSerializedValueSizeUnsigned(NatBits(size, 64))
    IN  IF size > kMaxSerializedSize - varint_byte_count
        THEN kWouldSerializeTooManyBytes
        ELSE varint_byte_count + size

(* string.size(): the size engine reads nothing else of a string.  A       *)
(* string of kind "string_of_size" is given by its size alone.             *)
StringSize(T, v) ==
    CASE T.k = "string" -> Len(v)
      [] T.k = "string_view" -> Len(v[1])
      [] T.k = "string_of_size" -> v

(* The payload size without the size of its length varint. *)
SizeWithoutLength(payload_size) == payload_size

(* ComputeSerializedValueSize(Message), from the payload size that        *)
(* ComputeSerializedSizeOfFields returned.                                 *)
SizeWithLength(payload_size) ==
    ComputeSerializedValueSizeUnsigned(NatBits(payload_size, 32)) + payload_size

RECURSIVE ComputeSerializedValueSize(_, _)
RECURSIVE ComputeSerializedSizeOfFields(_, _, _, _)
RECURSIVE SumOfValueSizes(_, _, _)

(* The loop of ComputePackedFieldPayloadSizeHelper over varint elements. *)
SumOfValueSizes(ValueType, container, i) ==
    IF i > Len(container) THEN 0
    ELSE ComputeSerializedValueSize(ValueType, container[i])
         + SumOfValueSizes(ValueType, container, i + 1)

(* std::distance(begin, end): a container of kind "vector_of_size" is      *)
(* given by its element count alone.                                       *)
Distance(T, container) == IF T.k = "vector_of_size" THEN container ELSE Len(container)

ComputePackedFieldPayloadSizeHelper(T, container) ==
    IF GetWireType(T.of) = kVarint
    THEN SumOfValueSizes(T.of, container, 1)
    ELSE Distance(T, container) * ComputeSerializedValueSize(T.of, DefaultValue(T.of))

ComputeSerializedValueSize(T, v) ==
    CASE T.k = "uint" -> ComputeSerializedValueSizeUnsigned(v)
      [] T.k = "int" -> ComputeSerializedValueSizeSigned(v)
      [] T.k = "bool" -> 1
      [] T.k = "enum" -> ComputeSerializedValueSize(Underlying(T), v)
      [] T.k = "sint" -> ComputeSerializedValueSizeUnsigned(EncodeZigZag(v))
      [] T.k = "fixed" -> T.w \div 8
      [] T.k \in {"string", "string_view", "string_of_size"} ->
           ComputeSerializedValueSizeString(StringSize(T, v))
      [] T.k \in {"message", "pair"} ->
           SizeWithLength(ComputeSerializedSizeOfFields(v, FieldsOf(T), 1, 0))

(* The loop over an unpacked repeated field's elements. *)
RECURSIVE SizeOfUnpackedElements(_, _, _, _)
SizeOfUnpackedElements(ET, container, i, kTagSize) ==
    IF i > Len(container) THEN 0
    ELSE (IF IsStoringOneValue(ET, container[i])
          THEN kTagSize
               + ComputeSerializedValueSize(Inner(ET), GetTheOneValue(ET, container[i]))
          ELSE 0)
         + SizeOfUnpackedElements(ET, container, i + 1, kTagSize)

(* ComputeSerializedSizeOfFields(message, FieldList<>, byte_count_so_far): *)
(* the base case and its max-size check.                                   *)
SizeOfNoFields(byte_count_so_far) ==
    IF byte_count_so_far > kMaxSerializedSize
    THEN kWouldSerializeTooManyBytes
    ELSE byte_count_so_far

(* What ComputeSerializedSizeOfFields adds to byte_count_so_far for        *)
(* FirstField, whose member is |member|.                                   *)
SizeOfFirstField(FirstField, member) ==
    LET T == FirstField.type
        kTagSize == ComputeSerializedValueSizeUnsigned(GetTagForSerialization(FirstField))
    IN  IF CanEncodeAsAPackedRepeatedField(T)
        THEN IF Distance(T, member) # 0
             THEN kTagSize
                  + SizeWithLength(ComputePackedFieldPayloadSizeHelper(T, member))
             ELSE 0
        ELSE IF IsRepeatedField(T)
        THEN SizeOfUnpackedElements(T.of, member, 1, kTagSize)
        ELSE IF IsStoringOneValue(T, member)
        THEN kTagSize + ComputeSerializedValueSize(Inner(T), GetTheOneValue(T, member))
        ELSE 0

(* The fields from the i-th on. *)
ComputeSerializedSizeOfFields(message, fields, i, byte_count_so_far) ==
    IF i > Len(fields)
    THEN SizeOfNoFields(byte_count_so_far)
    ELSE ComputeSerializedSizeOfFields(
             message, fields, i + 1,
             byte_count_so_far + SizeOfFirstField(fields[i], message[i]))

(* A check that also refuses a size of exactly kMaxSerializedSize. *)
SizeBelowMaxOrMinusOne(fields_size) ==
    IF fields_size < kMaxSerializedSize THEN fields_size ELSE -1

(* pb/serialize.h: (size <= kMaxSerializedSize) ? size : -1 *)
SizeOrMinusOne(fields_size) ==
    IF fields_size <= kMaxSerializedSize THEN fields_size ELSE -1

(* pb/serialize.h: pb::ComputeSerializedSize *)
ComputeSerializedSize(T, message) ==
    SizeOrMinusOne(ComputeSerializedSizeOfFields(message, FieldsOf(T), 1, 0))

----------------------------------------------------------------------------
(* pb/codec/serialize.h: the serializer.  Each SerializeValue returns the  *)
(* bytes it writes at |buffer|; the pointer it returns is |buffer| plus    *)
(* their count.                                                            *)

(* SerializeValue(UnsignedIntegral) *)
RECURSIVE SerializeValueUnsigned(_)
SerializeValueUnsigned(value) ==
    IF AtLeast128(value)
    THEN << 128 + (LowByte(value) % 128) >>
         \o SerializeValueUnsigned(ShiftRight(value, 7))
    ELSE << LowByte(value) >>

(* SerializeValue(SignedIntegral) *)
SerializeValueSigned(value) == SerializeValueUnsigned(SignExtend(value, 64))

(* SerializeValue(Fixed64 / Fixed32): the bits as little-endian bytes. *)
SerializeValueFixed(value) ==
    Eager([j \in 1..(Len(value) \div 8) |-> ToNat(SubSeq(value, 8 * (j - 1) + 1, 8 * j))])

RECURSIVE SerializeValue(_, _)
RECURSIVE SerializeFields(_, _, _)
RECURSIVE SerializePackedElements(_, _, _)
RECURSIVE SerializeUnpackedElements(_, _, _, _)

(* The do-while loop over a packed repeated field's elements. *)
SerializePackedElements(ValueType, container, i) ==
    SerializeValue(ValueType, container[i])
    \o (IF i + 1 > Len(container) THEN << >>
        ELSE SerializePackedElements(ValueType, container, i + 1))

(* A loop that ends after the first element of the container. *)
SerializeFirstUnpackedElement(ET, container, i, kTag) ==
    IF i > Min(1, Len(container)) THEN << >>
    ELSE IF IsStoringOneValue(ET, container[i])
    THEN SerializeValueUnsigned(kTag)
         \o SerializeValue(Inner(ET), GetTheOneValue(ET, container[i]))
    ELSE << >>

(* The loop over an unpacked repeated field's elements. *)
SerializeUnpackedElements(ET, container, i, kTag) ==
    IF i > Len(container) THEN << >>
    ELSE (IF IsStoringOneValue(ET, container[i])
          THEN SerializeValueUnsigned(kTag)
               \o SerializeValue(Inner(ET), GetTheOneValue(ET, container[i]))
          ELSE << >>)
         \o SerializeUnpackedElements(ET, container, i + 1, kTag)

SerializeValue(T, v) ==
    CASE T.k = "uint" -> SerializeValueUnsigned(v)
      [] T.k = "int" -> SerializeValueSigned(v)
      [] T.k = "bool" -> << IF v THEN 1 ELSE 0 >>
      [] T.k = "enum" -> SerializeValue(Underlying(T), v)
      [] T.k = "sint" -> SerializeValueUnsigned(EncodeZigZag(v))
      [] T.k = "fixed" -> SerializeValueFixed(v)
      [] T.k = "string" -> SerializeValueUnsigned(NatBits(Len(v), 64)) \o v
      [] T.k = "string_view" ->
           SerializeValueUnsigned(NatBits(Len(v[1]), 64)) \o v[1]
      [] T.k \in {"message", "pair"} ->
           LET payload_size == ComputeSerializedSizeOfFields(v, FieldsOf(T), 1, 0)
           IN  SerializeValueUnsigned(NatBits(payload_size, 32))
               \o SerializeFields(v, FieldsOf(T), 1)

SerializeFields(message, fields, i) ==
    IF i > Len(fields) THEN << >>
    ELSE
      LET FirstField == fields[i]
          T == FirstField.type
          member == message[i]
          kTag == GetTagForSerialization(FirstField)
          written ==
              IF CanEncodeAsAPackedRepeatedField(T)
              THEN IF Len(member) # 0
                   THEN LET payload_size ==
                                ComputePackedFieldPayloadSizeHelper(T, member)
                        IN  SerializeValueUnsigned(kTag)
                            \o SerializeValueUnsigned(NatBits(payload_size, 32))
                            \o SerializePackedElements(T.of, member, 1)
                   ELSE << >>
              ELSE IF IsRepeatedField(T)
              THEN SerializeUnpackedElements(T.of, member, 1, kTag)
              ELSE IF IsStoringOneValue(T, member)
              THEN SerializeValueUnsigned(kTag)
                   \o SerializeValue(Inner(T), GetTheOneValue(T, member))
              ELSE << >>
      IN  written \o SerializeFields(message, fields, i + 1)

(* pb/serialize.h: pb::Serialize, the bytes written at |buffer|. *)
Serialize(T, message) == SerializeFields(message, FieldsOf(T), 1)

----------------------------------------------------------------------------
(* pb/codec/parse.h.  A ParseValue returns [p, v]: p is the pointer it     *)
(* returns (NULLPTR when the parse fails) and v the value it leaves in its *)
(* |result| argument, which started as |old|.                              *)

Failed(p) == p < 0

(* *buffer for a buffer inside [0, buffer_end); NoByte outside of it. *)
NoByte == -1

ByteAt(bytes, offset, buffer_end) ==
    IF offset >= 0 /\ offset < buffer_end /\ offset < Len(bytes)
    THEN bytes[offset + 1]
    ELSE NoByte

(* bits |= static_cast<UnsignedIntegral>(byte & 0b01111111) << shift *)
OrShifted7(bits, byte, shift) ==
    Eager([j \in 1..Len(bits) |->
        IF j > shift /\ j <= shift + 7
        THEN Max(bits[j], ((byte % 128) \div (2 ^ (j - shift - 1))) % 2)
        ELSE bits[j]])

(* The number of whole 7-bit groups in w bits. *)
kWholeGroups(w) == w \div 7

kMaxPossibleSize(w) == (w + 6) \div 7

(* ParseValue(Integral): the second loop, skipping the remainder of an     *)
(* over-long varint.                                                       *)
RECURSIVE SkipRestOfVarint(_, _, _, _)
SkipRestOfVarint(bytes, buffer, buffer_end, bits) ==
    IF buffer = buffer_end THEN [p |-> NULLPTR, v |-> bits]
    ELSE LET byte == ByteAt(bytes, buffer, buffer_end)
         IN  IF byte = NoByte THEN [p |-> OutOfBounds, v |-> bits]
             ELSE IF byte < 128 THEN [p |-> buffer + 1, v |-> bits]
             ELSE SkipRestOfVarint(bytes, buffer + 1, buffer_end, bits)

(* ParseValue(Integral): the first loop, from its i-th round. *)
RECURSIVE ParseVarintFrom(_, _, _, _, _)
ParseVarintFrom(bytes, buffer, buffer_end, i, bits) ==
    IF i >= kMaxPossibleSize(Len(bits))
    THEN SkipRestOfVarint(bytes, buffer + kMaxPossibleSize(Len(bits)), buffer_end, bits)
    ELSE IF buffer + i >= buffer_end THEN [p |-> NULLPTR, v |-> bits]
    ELSE LET byte == ByteAt(bytes, buffer + i, buffer_end)
             more == OrShifted7(bits, byte, i * 7)
         IN  IF byte = NoByte THEN [p |-> OutOfBounds, v |-> bits]
             ELSE IF byte < 128 THEN [p |-> buffer + i + 1, v |-> more]
             ELSE ParseVarintFrom(bytes, buffer, buffer_end, i + 1, more)

(* ParseValue(Integral) into an integer of w bits: v is |bits| at the      *)
(* return, which the caller stores only when p is not null.                *)
ParseVarint(bytes, buffer, buffer_end, w) ==
    ParseVarintFrom(bytes, buffer, buffer_end, 0, Zero(w))

(* A bool that is the low bit of the varint. *)
ParseValueBoolOfLowBit(bytes, buffer, buffer_end) ==
    LET r == ParseVarint(bytes, buffer, buffer_end, 64)
        value == IF Failed(r.p) THEN Zero(64) ELSE r.v
    IN  [p |-> r.p, v |-> value[1] = 1]

(* ParseValue(bool): uint64_t value{}; parse it; result = !!value *)
ParseValueBool(bytes, buffer, buffer_end) ==
    LET r == ParseVarint(bytes, buffer, buffer_end, 64)
        value == IF Failed(r.p) THEN Zero(64) ELSE r.v
    IN  [p |-> r.p, v |-> value # Zero(64)]

(* ParseFixedValueNoBoundsCheck: size bytes at |buffer|, little-endian. *)
ParseFixedValueNoBoundsCheck(bytes, buffer, buffer_end, size) ==
    IF \E j \in 0..(size - 1) : ByteAt(bytes, buffer + j, buffer_end) = NoByte
    THEN [p |-> OutOfBounds, v |-> Zero(8 * size)]
    ELSE [p |-> buffer,
          v |-> Eager([i \in 1..(8 * size) |->
                   (ByteAt(bytes, buffer + ((i - 1) \div 8), buffer_end)
                      \div (2 ^ ((i - 1) % 8))) % 2])]

(* ParseValue(Float) and ParseValue(Fixed) *)
ParseValueFixed(bytes, buffer, buffer_end, w, old) ==
    LET kFixedSize == w \div 8
        read == ParseFixedValueNoBoundsCheck(bytes, buffer, buffer_end, kFixedSize)
    IN  IF (buffer_end - buffer) < kFixedSize THEN [p |-> NULLPTR, v |-> old]
        ELSE IF Failed(read.p) THEN [p |-> read.p, v |-> old]
        ELSE [p |-> buffer + kFixedSize, v |-> read.v]

kBitsPerVarintByte == 7

(* The loop counting the bits of kMaxSerializedSize. *)
RECURSIVE CountBits(_)
CountBits(bits) == IF bits = 0 THEN 0 ELSE 1 + CountBits(bits \div 2)

kMaxBitsToRepresentSize == CountBits(kMaxSerializedSize)

kBiggestVarintSize ==
    (kMaxBitsToRepresentSize + (kBitsPerVarintByte - 1)) \div kBitsPerVarintByte

kMaxValidPayloadSize == kMaxSerializedSize - kBiggestVarintSize

(* The checks of |byte_count| that do not look at |buffer_end|. *)
IsParsedByteCountBelowLimit(buffer, buffer_end, byte_count) ==
    /\ ~Failed(buffer)
    /\ FitsNat(byte_count)
    /\ ToNat(byte_count) <= kMaxValidPayloadSize

(* |buffer| is what the parse of the length returned, |byte_count| the     *)
(* uint32_t it parsed.                                                     *)
IsParsedByteCountValid(buffer, buffer_end, byte_count) ==
    /\ ~Failed(buffer)
    /\ FitsNat(byte_count)
    /\ ToNat(byte_count) <= kMaxValidPayloadSize
    /\ buffer + ToNat(byte_count) <= buffer_end

(* The bytes of [buffer, buffer + byte_count). *)
BytesAt(bytes, buffer, buffer_end, byte_count) ==
    Eager([j \in 1..byte_count |-> ByteAt(bytes, buffer + j - 1, buffer_end)])

(* ParseValue(String): std::string is assigned a copy of the bytes, a      *)
(* std::string_view the region itself.                                     *)
ParseValueString(bytes, buffer, buffer_end, T, old) ==
    LET len == ParseVarint(bytes, buffer, buffer_end, 32)
        byte_count == ToNat(len.v)
        region == BytesAt(bytes, len.p, buffer_end, byte_count)
    IN  IF len.p = OutOfBounds THEN [p |-> OutOfBounds, v |-> old]
        ELSE IF ~IsParsedByteCountValid(len.p, buffer_end, len.v)
        THEN [p |-> NULLPTR, v |-> old]
        ELSE IF \E j \in 1..byte_count : region[j] = NoByte
        THEN [p |-> OutOfBounds, v |-> old]
        ELSE [p |-> len.p + byte_count,
              v |-> IF T.k = "string_view" THEN << region >> ELSE region]

(* The adapters with a new object in place of the one they hold. *)
EmplacedAnew(T, v) ==
    IF T.k \in {"optional", "unique_ptr"} THEN << DefaultValue(T.of) >> ELSE v

(* The adapters: if (!result) result.emplace(), then *result. *)
Emplaced(T, v) ==
    IF T.k \in {"optional", "unique_ptr"}
    THEN IF v = << >> THEN << DefaultValue(T.of) >> ELSE v
    ELSE v

(* An insert that puts the element before those the container holds. *)
InsertAtBegin(T, result, element) == << element >> \o result

(* std::map::insert_or_assign: the element takes the place of the one with *)
(* its key.                                                                *)
InsertOrAssign(T, result, element) ==
    IF T.unique
    THEN With(Cardinality({j \in 1..Len(result) : KeyLess(result[j][1], element[1])}),
              LAMBDA n :
                SubSeq(result, 1, n) \o << element >>
                  \o SelectSeq(SubSeq(result, n + 1, Len(result)),
                               LAMBDA held : held[1] # element[1]))
    ELSE Append(result, element)

(* result.insert(std::end(result), std::move(element)): at the end of a    *)
(* sequence container; in a std::map, nowhere when it holds the key, and   *)
(* where the order of the keys puts it otherwise.                          *)
Insert(T, result, element) ==
    IF T.unique
    THEN IF \E j \in 1..Len(result) : result[j][1] = element[1] THEN result
         ELSE With(Cardinality({j \in 1..Len(result) :
                                  KeyLess(result[j][1], element[1])}),
                   LAMBDA n :
                     SubSeq(result, 1, n) \o << element >>
                       \o SubSeq(result, n + 1, Len(result)))
    ELSE Append(result, element)

RECURSIVE ParseValue(_, _, _, _, _, _)
RECURSIVE ParseFields(_, _, _, _, _, _)
RECURSIVE ParseValueAfterTag(_, _, _, _, _, _, _, _, _, _)
RECURSIVE ParsePackedRepeatedVarintHelper(_, _, _, _, _, _)
RECURSIVE ParsePackedRepeatedFixedHelper(_, _, _, _, _, _, _)

(* A loop that goes to the end of the payload and appends none of its      *)
(* elements.                                                               *)
ParsePackedRepeatedVarintHelperOfNone(bytes, begin, end, ET, element, result) ==
    [p |-> end, v |-> result]

(* The loop of ParsePackedRepeatedVarintHelper; |element| is declared once *)
(* and parsed into at every round.                                         *)
ParsePackedRepeatedVarintHelper(bytes, begin, end, ET, element, result) ==
    IF begin = end THEN [p |-> begin, v |-> result]
    ELSE With(ParseValue(bytes, begin, end, -1, ET, element),
              LAMBDA one :
                IF Failed(one.p) THEN [p |-> one.p, v |-> result]
                ELSE ParsePackedRepeatedVarintHelper(bytes, one.p, end, ET, one.v,
                                                     Append(result, one.v)))

(* The loop of ParsePackedRepeatedFixedHelper from offset i; it gets no    *)
(* buffer_end, which is here only to tell a read outside of the buffer.    *)
ParsePackedRepeatedFixedHelper(bytes, buffer, buffer_end, byte_count, kBytesPerElement, i, result) ==
    IF i = 0 /\ (byte_count % kBytesPerElement) # 0 THEN [p |-> NULLPTR, v |-> result]
    ELSE IF i = byte_count THEN [p |-> buffer + i, v |-> result]
    ELSE LET read == ParseFixedValueNoBoundsCheck(bytes, buffer + i, buffer_end,
                                                  kBytesPerElement)
         IN  IF Failed(read.p) THEN [p |-> read.p, v |-> result]
             ELSE ParsePackedRepeatedFixedHelper(bytes, buffer, buffer_end, byte_count,
                                                 kBytesPerElement, i + kBytesPerElement,
                                                 Append(result, read.v))

ParsePackedRepeatedValues(bytes, buffer, buffer_end, T, result) ==
    LET len == ParseVarint(bytes, buffer, buffer_end, 32)
        byte_count == ToNat(len.v)
        kElementWireType == GetWireType(T.of)
    IN  IF len.p = OutOfBounds THEN [p |-> OutOfBounds, v |-> result]
        ELSE IF ~IsParsedByteCountValid(len.p, buffer_end, len.v)
        THEN [p |-> NULLPTR, v |-> result]
        ELSE IF kElementWireType = kVarint
        THEN ParsePackedRepeatedVarintHelper(bytes, len.p, len.p + byte_count, T.of,
                                             DefaultValue(T.of), result)
        ELSE IF kElementWireType = kFixed64Bit
        THEN ParsePackedRepeatedFixedHelper(bytes, len.p, buffer_end, byte_count, 8, 0,
                                            result)
        ELSE ParsePackedRepeatedFixedHelper(bytes, len.p, buffer_end, byte_count, 4, 0,
                                            result)

(* A nesting check that lets one more level in. *)
NestingLimitExceeded(nesting_level) == nesting_level > kMaxMessageNestingDepth

(* ParseValue(Message): if (nesting_level >= kMaxMessageNestingDepth) *)
NestingLimitReached(nesting_level) == nesting_level >= kMaxMessageNestingDepth

(* ParseValue(Message) without ++nesting_level. *)
EnterMessageAtTheSameLevel(bytes, buffer, buffer_end, nesting_level) ==
    LET len == ParseVarint(bytes, buffer, buffer_end, 32)
        failure == [p |-> NULLPTR, last |-> NULLPTR, level |-> nesting_level]
    IN  IF len.p = OutOfBounds THEN [failure EXCEPT !.p = OutOfBounds]
        ELSE IF ~IsParsedByteCountValid(len.p, buffer_end, len.v) THEN failure
        ELSE IF NestingLimitReached(nesting_level) THEN failure
        ELSE [p |-> len.p, last |-> len.p + ToNat(len.v), level |-> nesting_level]

(* ParseValue(Message) up to its call of ParseFields: p is the begin of    *)
(* the payload (or the failure), last its end, level the nesting level the *)
(* fields are parsed at.                                                   *)
EnterMessage(bytes, buffer, buffer_end, nesting_level) ==
    LET len == ParseVarint(bytes, buffer, buffer_end, 32)
        failure == [p |-> NULLPTR, last |-> NULLPTR, level |-> nesting_level]
    IN  IF len.p = OutOfBounds THEN [failure EXCEPT !.p = OutOfBounds]
        ELSE IF ~IsParsedByteCountValid(len.p, buffer_end, len.v) THEN failure
        ELSE IF NestingLimitReached(nesting_level) THEN failure
        ELSE [p |-> len.p, last |-> len.p + ToNat(len.v), level |-> nesting_level + 1]

(* ParseValue(Message), and ParseValue(Pair) through the facade. *)
ParseValueMessage(bytes, buffer, buffer_end, nesting_level, T, old) ==
    With(EnterMessage(bytes, buffer, buffer_end, nesting_level),
         LAMBDA payload :
           IF Failed(payload.p) THEN [p |-> payload.p, v |-> old]
           ELSE ParseFields(bytes, payload.p, payload.last, payload.level,
                            FieldsOf(T), old))

ParseValue(bytes, buffer, buffer_end, nesting_level, T, old) ==
    CASE T.k \in {"uint", "int"} ->
           LET r == ParseVarint(bytes, buffer, buffer_end, T.w)
           IN  [p |-> r.p, v |-> IF Failed(r.p) THEN old ELSE r.v]
      [] T.k = "bool" -> ParseValueBool(bytes, buffer, buffer_end)
      [] T.k = "enum" ->
           LET r == ParseVarint(bytes, buffer, buffer_end, T.w)
           IN  [p |-> r.p, v |-> IF Failed(r.p) THEN Zero(T.w) ELSE r.v]
      [] T.k = "sint" ->
           LET r == ParseVarint(bytes, buffer, buffer_end, T.w)
               bits == IF Failed(r.p) THEN Zero(T.w) ELSE r.v
           IN  [p |-> r.p, v |-> DecodeZigZag(bits)]
      [] T.k = "fixed" -> ParseValueFixed(bytes, buffer, buffer_end, T.w, old)
      [] T.k \in {"string", "string_view"} ->
           ParseValueString(bytes, buffer, buffer_end, T, old)
      [] T.k \in {"message", "pair"} ->
           ParseValueMessage(bytes, buffer, buffer_end, nesting_level, T, old)
      [] T.k \in {"optional", "unique_ptr"} ->
           With(ParseValue(bytes, buffer, buffer_end, nesting_level, T.of,
                           Emplaced(T, old)[1]),
                LAMBDA r : [p |-> r.p, v |-> << r.v >>])
      [] T.k = "vector" ->
           With(ParseValue(bytes, buffer, buffer_end, nesting_level, T.of,
                           DefaultValue(T.of)),
                LAMBDA r : [p |-> r.p, v |-> Insert(T, old, r.v)])

(* A skip that refuses every value, as one of a group or reserved tag. *)
SkipValueRefused(bytes, buffer, buffer_end, nesting_level, wire_type) == NULLPTR

(* The pointer SkipValueAfterTag returns. *)
SkipValueAfterTag(bytes, buffer, buffer_end, nesting_level, wire_type) ==
    CASE wire_type = kVarint -> ParseVarint(bytes, buffer, buffer_end, 64).p
      [] wire_type = kFixed64Bit ->
           IF (buffer_end - (buffer + 8)) >= 0 THEN buffer + 8 ELSE NULLPTR
      [] wire_type = kLengthDelimited ->
           LET len == ParseVarint(bytes, buffer, buffer_end, 32)
           IN  IF len.p = OutOfBounds THEN OutOfBounds
               ELSE IF ~IsParsedByteCountValid(len.p, buffer_end, len.v) THEN NULLPTR
               ELSE len.p + ToNat(len.v)
      [] wire_type = kFixed32Bit ->
           IF (buffer_end - (buffer + 4)) >= 0 THEN buffer + 4 ELSE NULLPTR
      [] OTHER -> NULLPTR

(* A field whose value is skipped whatever the wire type of the tag. *)
ParseValueAfterTagForFieldOrSkip(bytes, buffer, buffer_end, nesting_level, wire_type_from_tag, T, old) ==
    [p |-> SkipValueAfterTag(bytes, buffer, buffer_end, nesting_level, wire_type_from_tag),
     v |-> old]

ParseValueAfterTagForField(bytes, buffer, buffer_end, nesting_level, wire_type_from_tag, T, old) ==
    IF IsRepeatedField(T)
    THEN IF wire_type_from_tag = GetWireType(T.of)
         THEN ParseValue(bytes, buffer, buffer_end, nesting_level, T, old)
         ELSE IF CanEncodeAsAPackedRepeatedField(T)
                 /\ wire_type_from_tag = kLengthDelimited
         THEN ParsePackedRepeatedValues(bytes, buffer, buffer_end, T, old)
         ELSE [p |-> NULLPTR, v |-> old]
    ELSE IF wire_type_from_tag = GetWireType(T)
    THEN ParseValue(bytes, buffer, buffer_end, nesting_level, T, old)
    ELSE [p |-> NULLPTR, v |-> old]

(* FieldList::AreFieldNumbersMonotonicallyIncreasing, from the i-th field. *)
RECURSIVE AreFieldNumbersMonotonicallyIncreasing(_, _)
AreFieldNumbersMonotonicallyIncreasing(fields, i) ==
    IF i >= Len(fields) THEN TRUE
    ELSE IF fields[i].num >= fields[i + 1].num THEN FALSE
    ELSE AreFieldNumbersMonotonicallyIncreasing(fields, i + 1)

(* A search that looks at the first pivot alone. *)
ParseValueAfterTagAtPivot(bytes, buffer, buffer_end, nesting_level, wire_type, field_number, fields, message, kBeginIndex, kEndIndex) ==
    IF kBeginIndex < kEndIndex
       /\ field_number = fields[kBeginIndex + (kEndIndex - kBeginIndex) \div 2 + 1].num
    THEN With(kBeginIndex + (kEndIndex - kBeginIndex) \div 2 + 1,
              LAMBDA i :
                With(ParseValueAfterTagForField(
                         bytes, buffer, buffer_end, nesting_level, wire_type,
                         fields[i].type, message[i]),
                     LAMBDA r : [p |-> r.p, v |-> [message EXCEPT ![i] = r.v]]))
    ELSE [p |-> SkipValueAfterTag(bytes, buffer, buffer_end, nesting_level, wire_type),
          v |-> message]

(* The binary search over FieldAt<kBeginIndex> .. FieldAt<kEndIndex - 1>. *)
ParseValueAfterTag(bytes, buffer, buffer_end, nesting_level, wire_type, field_number, fields, message, kBeginIndex, kEndIndex) ==
    IF kBeginIndex < kEndIndex
    THEN LET kPivotIndex == kBeginIndex + (kEndIndex - kBeginIndex) \div 2
             PivotField == fields[kPivotIndex + 1]
         IN  IF field_number = PivotField.num
             THEN With(ParseValueAfterTagForField(
                           bytes, buffer, buffer_end, nesting_level, wire_type,
                           PivotField.type, message[kPivotIndex + 1]),
                       LAMBDA r :
                         [p |-> r.p,
                          v |-> [message EXCEPT ![kPivotIndex + 1] = r.v]])
             ELSE IF field_number < PivotField.num
             THEN ParseValueAfterTag(bytes, buffer, buffer_end, nesting_level,
                                     wire_type, field_number, fields, message,
                                     kBeginIndex, kPivotIndex)
             ELSE ParseValueAfterTag(bytes, buffer, buffer_end, nesting_level,
                                     wire_type, field_number, fields, message,
                                     kPivotIndex + 1, kEndIndex)
    ELSE [p |-> SkipValueAfterTag(bytes, buffer, buffer_end, nesting_level, wire_type),
          v |-> message]

ParseFields(bytes, buffer, buffer_end, nesting_level, fields, message) ==
    IF buffer = buffer_end THEN [p |-> buffer, v |-> message]
    ELSE With(ParseVarint(bytes, buffer, buffer_end, 32),
              LAMBDA tag :
                IF Failed(tag.p) THEN [p |-> tag.p, v |-> message]
                ELSE With(ParseValueAfterTag(bytes, tag.p, buffer_end, nesting_level,
                                             GetWireTypeFromTag(tag.v),
                                             GetFieldNumberFromTag(tag.v),
                                             fields, message, 0, Len(fields)),
                          LAMBDA value :
                            IF Failed(value.p) THEN value
                            ELSE ParseFields(bytes, value.p, buffer_end,
                                             nesting_level, fields, value.v)))

(* pb/parse.h: pb::MergeFromBuffer over [begin, end) of |bytes|: ok is the *)
(* bool it returns and v the message it leaves.                            *)
MergeFromBuffer(bytes, begin, end, T, message) ==
    With(ParseFields(bytes, begin, end, 0, FieldsOf(T), message),
         LAMBDA r : [ok |-> ~Failed(r.p), p |-> r.p, v |-> r.v])

(* pb/parse.h: pb::Parse into a fresh Message; << >> is the null result. *)
Parse(bytes, begin, end, T) ==
    With(ParseFields(bytes, begin, end, 0, FieldsOf(T), DefaultValue(T)),
         LAMBDA r : IF Failed(r.p) THEN << >> ELSE << r.v >>)

----------------------------------------------------------------------------
(* pb/inspection.cc: the scan of wire bytes for message fields.  A span is *)
(* a record: its class (WireSpan for bytes that are no field), its range   *)
(* [begin, end), the field number, and the varint or fixed value, the      *)
(* offset of the bytes, or the fields of the nested message.               *)

IsValidFieldNumber(x) == (x >= 1) /\ (x < 19000 \/ x > 19999) /\ (x <= 536870911)

WireSpan(begin, end) ==
    [kind |-> "WireSpan", begin |-> begin, end |-> end, field_number |-> 0,
     value |-> << >>]

FieldSpan(kind, begin, end, field_number, value) ==
    [kind |-> kind, begin |-> begin, end |-> end, field_number |-> field_number,
     value |-> value]

(* No tag: {nullptr, {}}. *)
NoTag == [tag_begin |-> NULLPTR, tag_end |-> NULLPTR, tag |-> Zero(32)]

MaybeParseTag(bytes, begin, end) ==
    With(ParseVarint(bytes, begin, end, 32),
         LAMBDA parsed :
           IF /\ ~Failed(parsed.p)
              /\ (parsed.p - begin) <= kMaxPossibleSize(32)
              /\ IsValidFieldNumber(GetFieldNumberFromTag(parsed.v))
              /\ GetWireTypeFromTag(parsed.v)
                   \in {kVarint, kFixed64Bit, kLengthDelimited, kFixed32Bit}
           THEN [tag_begin |-> begin, tag_end |-> parsed.p, tag |-> parsed.v]
           ELSE NoTag)

(* A search that finds no tag. *)
FindNoValidTag(bytes, begin, end) == NoTag

RECURSIVE FindNextValidTag(_, _, _)
FindNextValidTag(bytes, begin, end) ==
    IF begin = end THEN NoTag
    ELSE With(MaybeParseTag(bytes, begin, end),
              LAMBDA found :
                IF found.tag_end # NULLPTR THEN found
                ELSE FindNextValidTag(bytes, begin + 1, end))

(* An extension that forgets where the last span began. *)
MergeOrAppendSpanAtEndFromBegin(begin, end, spans) ==
    IF spans # << >> /\ spans[Len(spans)].kind = "WireSpan"
       /\ begin <= spans[Len(spans)].end /\ begin >= spans[Len(spans)].begin
       /\ end > spans[Len(spans)].end
    THEN [spans EXCEPT ![Len(spans)] = WireSpan(begin, end)]
    ELSE Append(spans, WireSpan(begin, end))

(* An append that never extends the last span. *)
AppendSpanAtEnd(begin, end, spans) == Append(spans, WireSpan(begin, end))

MergeOrAppendSpanAtEnd(begin, end, spans) ==
    IF spans # << >> /\ spans[Len(spans)].kind = "WireSpan"
       /\ begin <= spans[Len(spans)].end /\ begin >= spans[Len(spans)].begin
       /\ end > spans[Len(spans)].end
    THEN [spans EXCEPT ![Len(spans)] = WireSpan(spans[Len(spans)].begin, end)]
    ELSE Append(spans, WireSpan(begin, end))

RECURSIVE ScanForMessageFieldsRecursively(_, _, _, _, _)
RECURSIVE ScanWhile(_, _, _, _, _, _)

(* The span of the field whose tag is |found|, in a sequence of its own;   *)
(* << >> when no value that looks valid follows the tag.                   *)
SpanOfField(bytes, found, end, nesting_level) ==
    CASE GetWireTypeFromTag(found.tag) = kVarint ->
           With(ParseVarint(bytes, found.tag_end, end, 64),
                LAMBDA value :
                  IF ~Failed(value.p) /\ (value.p - found.tag_end) <= kMaxPossibleSize(64)
                  THEN << FieldSpan("VarintSpan", found.tag_begin, value.p,
                                    GetFieldNumberFromTag(found.tag), value.v) >>
                  ELSE << >>)
      [] GetWireTypeFromTag(found.tag) = kLengthDelimited ->
           With(ParseVarint(bytes, found.tag_end, end, 64),
                LAMBDA size :
                  IF /\ ~Failed(size.p)
                     /\ (size.p - found.tag_end) <= kMaxPossibleSize(32)
                     /\ ~IsNegative(size.v)
                     /\ FitsNat(size.v)
                     /\ ToNat(size.v) <= (end - size.p)
                  THEN With(IF nesting_level < kMaxMessageNestingDepth
                            THEN ScanForMessageFieldsRecursively(
                                     bytes, size.p, size.p + ToNat(size.v),
                                     nesting_level + 1, FALSE)
                            ELSE << >>,
                            LAMBDA nested_spans :
                              IF nested_spans = << >>
                              THEN << FieldSpan("BytesSpan", found.tag_begin,
                                                size.p + ToNat(size.v),
                                                GetFieldNumberFromTag(found.tag),
                                                size.p) >>
                              ELSE << FieldSpan("MessageSpan", found.tag_begin,
                                                size.p + ToNat(size.v),
                                                GetFieldNumberFromTag(found.tag),
                                                nested_spans) >>)
                  ELSE << >>)
      [] GetWireTypeFromTag(found.tag) = kFixed64Bit ->
           With(ParseValueFixed(bytes, found.tag_end, end, 64, Zero(64)),
                LAMBDA value :
                  IF ~Failed(value.p)
                  THEN << FieldSpan("Fixed64", found.tag_begin, value.p,
                                    GetFieldNumberFromTag(found.tag), value.v) >>
                  ELSE << >>)
      [] GetWireTypeFromTag(found.tag) = kFixed32Bit ->
           With(ParseValueFixed(bytes, found.tag_end, end, 32, Zero(32)),
                LAMBDA value :
                  IF ~Failed(value.p)
                  THEN << FieldSpan("Fixed32", found.tag_begin, value.p,
                                    GetFieldNumberFromTag(found.tag), value.v) >>
                  ELSE << >>)

(* A strict scan that returns the spans it has when a value is not valid.  *)
AfterInvalidValueWithSpans(bytes, tag_begin, end, nesting_level, permissive, spans) ==
    IF ~permissive THEN spans
    ELSE ScanWhile(bytes, tag_begin + 1, end, nesting_level, permissive,
                   MergeOrAppendSpanAtEnd(tag_begin, tag_begin + 1, spans))

(* A scan that goes on after the tag whose value is not valid. *)
AfterInvalidValueFromTagEnd(bytes, tag_begin, end, nesting_level, permissive, spans) ==
    IF ~permissive THEN << >>
    ELSE With(MaybeParseTag(bytes, tag_begin, end).tag_end,
              LAMBDA tag_end :
                ScanWhile(bytes, tag_end, end, nesting_level, permissive,
                          MergeOrAppendSpanAtEnd(tag_begin, tag_end, spans)))

(* The branches of the switch for a value that is not valid: return {}, or *)
(* a WireSpan for the first byte of the tag and the scan from the next.    *)
AfterInvalidValue(bytes, tag_begin, end, nesting_level, permissive, spans) ==
    IF ~permissive THEN << >>
    ELSE ScanWhile(bytes, tag_begin + 1, end, nesting_level, permissive,
                   MergeOrAppendSpanAtEnd(tag_begin, tag_begin + 1, spans))

(* while (begin < end), with the |spans| found so far. *)
ScanWhile(bytes, begin, end, nesting_level, permissive, spans) ==
    IF ~(begin < end) THEN spans
    ELSE With(IF permissive THEN FindNextValidTag(bytes, begin, end)
              ELSE MaybeParseTag(bytes, begin, end),
              LAMBDA found :
                IF found.tag_end = NULLPTR
                THEN IF permissive THEN MergeOrAppendSpanAtEnd(begin, end, spans)
                     ELSE << >>
                ELSE With(IF permissive /\ found.tag_begin > begin
                          THEN MergeOrAppendSpanAtEnd(begin, found.tag_begin, spans)
                          ELSE spans,
                          LAMBDA before_tag :
                            With(SpanOfField(bytes, found, end, nesting_level),
                                 LAMBDA field :
                                   IF field # << >>
                                   THEN ScanWhile(bytes, field[1].end, end,
                                                  nesting_level, permissive,
                                                  Append(before_tag, field[1]))
                                   ELSE AfterInvalidValue(
                                            bytes, found.tag_begin, end,
                                            nesting_level, permissive,
                                            before_tag))))

(* A scan that is permissive whatever it is asked. *)
ScanForMessageFieldsPermissively(bytes, begin, end, nesting_level, permissive) ==
    ScanWhile(bytes, begin, end, nesting_level, TRUE, << >>)

ScanForMessageFieldsRecursively(bytes, begin, end, nesting_level, permissive) ==
    ScanWhile(bytes, begin, end, nesting_level, permissive, << >>)

ScanForMessageFields(bytes, begin, end, permissive) ==
    ScanForMessageFieldsRecursively(bytes, begin, end, 0, permissive)

(* A MessageSpan for a scan that found fields alone. *)
ParseProbableMessageOfFields(bytes, begin, end) ==
    With(ScanForMessageFields(bytes, begin, end, FALSE),
         LAMBDA spans :
           IF spans # << >>
           THEN << FieldSpan("MessageSpan", begin, end, 0, spans) >>
           ELSE << >>)

(* The MessageSpan in a sequence of its own; << >> for the null pointer. *)
ParseProbableMessage(bytes, begin, end) ==
    With(ScanForMessageFields(bytes, begin, end, FALSE),
         LAMBDA spans :
           IF (spans = << >>) = ((end - begin) = 0)
           THEN << FieldSpan("MessageSpan", begin, end, 0, spans) >>
           ELSE << >>)

----------------------------------------------------------------------------
(* The programs that use the library: a writer that holds the record       *)
(* |source| and serializes it into |buffer|, and a reader that merges      *)
(* |buffer| into the record |message|.                                     *)

VARIABLES
    op,         \* the operation that ran last, or the one that is running
    type,       \* the record type of |source|
    target,     \* the record type of |message|
    source,     \* the writer's record
    size,       \* what pb::ComputeSerializedSize(source) returned last
    fields_size, \* what codec::ComputeSerializedSizeOfFields returned to it
    buffer,     \* the wire bytes
    message,    \* the reader's record
    before,     \* the reader's record as it was before its last merge
    merges,     \* the number of buffers merged into |message| so far
    buffer_end, \* the |end| argument of the last parse of |buffer|
    ok,         \* what pb::MergeFromBuffer returned last
    end,        \* the pointer codec::ParseFields returned last
    frames,     \* the activations of ParseFields of a running parse
    cursor,     \* the |buffer| pointer of the innermost activation
    declared,   \* the nested levels of |buffer| carried by declared fields
    undeclared  \* the nested levels of |buffer| carried by undeclared fields

vars == << op, type, target, source, size, fields_size, buffer, message, before, merges,
           buffer_end, ok, end, frames, cursor, declared, undeclared >>

(* size before any pb::ComputeSerializedSize call *)
NotComputed == -2

----------------------------------------------------------------------------
(* codec::ParseFields and ParseValue(Message), one activation at a time:   *)
(* the recursion of a parse as a stack of frames, the innermost last.  A   *)
(* frame holds the arguments of its ParseFields call, the message it       *)
(* parses into, and the index of the field of its caller's message that    *)
(* this message is.                                                        *)

(* The index (from 0) of the field the binary search of ParseValueAfterTag *)
(* ends at, or kNotFound when it ends at SkipValueAfterTag.                *)
kNotFound == -1

RECURSIVE FindFieldIndex(_, _, _, _)
FindFieldIndex(field_number, fields, kBeginIndex, kEndIndex) ==
    IF kBeginIndex < kEndIndex
    THEN LET kPivotIndex == kBeginIndex + (kEndIndex - kBeginIndex) \div 2
         IN  IF field_number = fields[kPivotIndex + 1].num THEN kPivotIndex
             ELSE IF field_number < fields[kPivotIndex + 1].num
             THEN FindFieldIndex(field_number, fields, kBeginIndex, kPivotIndex)
             ELSE FindFieldIndex(field_number, fields, kPivotIndex + 1, kEndIndex)
    ELSE kNotFound

(* The fields ParseValueAfterTagForField hands to ParseValue(Message),     *)
(* directly or through the optional or unique_ptr adapter.                 *)
IsNestedMessageField(T) == ~IsRepeatedField(T) /\ Inner(T).k \in {"message", "pair"}

WithTheOneValue(T, one) ==
    IF T.k \in {"optional", "unique_ptr"} THEN << one >> ELSE one

Top == frames[Len(frames)]

TopTag == ParseVarint(buffer, cursor, Top.buffer_end, 32)

(* The index (from 0) of the declared nested-message field that the tag at *)
(* |cursor| selects with the wire type of a message, or kNotFound.         *)
TopMessageFieldIndex ==
    LET fields == FieldsOf(Top.type)
        index == FindFieldIndex(GetFieldNumberFromTag(TopTag.v), fields, 0, Len(fields))
    IN  IF Failed(TopTag.p) \/ index = kNotFound THEN kNotFound
        ELSE IF IsNestedMessageField(fields[index + 1].type)
                /\ GetWireTypeFromTag(TopTag.v) = kLengthDelimited
        THEN index
        ELSE kNotFound

(* pb::MergeFromBuffer(begin, end, message) calls ParseFields at nesting   *)
(* level 0; the message is a freshly constructed one.                      *)
StartMerge ==
    /\ op = "wrap"
    /\ frames' = << [type |-> target, message |-> DefaultValue(target),
                     buffer_end |-> Len(buffer), nesting_level |-> 0, index |-> 0] >>
    /\ cursor' = 0
    /\ op' = "parsing"
    /\ UNCHANGED << type, target, before, buffer_end, merges,
                    source, size, fields_size, buffer, message, ok, end, declared, undeclared >>

(* ParseFields, one round of its loop for a field that is not a nested     *)
(* message: the tag, then ParseValueAfterTag.                              *)
ParseOneField ==
    /\ op = "parsing"
    /\ cursor # Top.buffer_end
    /\ TopMessageFieldIndex = kNotFound
    /\ IF Failed(TopTag.p)
       THEN /\ op' = "failing"
            /\ end' = TopTag.p
            /\ UNCHANGED << frames, cursor >>
       ELSE \E value \in {ParseValueAfterTag(buffer, TopTag.p, Top.buffer_end,
                                             Top.nesting_level,
                                             GetWireTypeFromTag(TopTag.v),
                                             GetFieldNumberFromTag(TopTag.v),
                                             FieldsOf(Top.type), Top.message, 0,
                                             Len(FieldsOf(Top.type)))} :
              /\ frames' = [frames EXCEPT ![Len(frames)].message = value.v]
              /\ IF Failed(value.p)
                 THEN op' = "failing" /\ end' = value.p /\ UNCHANGED cursor
                 ELSE cursor' = value.p /\ UNCHANGED << op, end >>
    /\ UNCHANGED << type, target, before, buffer_end, merges,
                    source, size, fields_size, buffer, message, ok, declared, undeclared >>

(* ParseFields, one round of its loop for a nested message: the tag, the   *)
(* adapter, then ParseValue(Message) up to its call of ParseFields.        *)
DescendIntoMessage ==
    /\ op = "parsing"
    /\ cursor # Top.buffer_end
    /\ TopMessageFieldIndex # kNotFound
    /\ LET T == FieldsOf(Top.type)[TopMessageFieldIndex + 1].type
           result == Emplaced(T, Top.message[TopMessageFieldIndex + 1])
           payload == EnterMessage(buffer, TopTag.p, Top.buffer_end, Top.nesting_level)
           emplaced == [frames EXCEPT
                          ![Len(frames)].message[TopMessageFieldIndex + 1] = result]
       IN  IF Failed(payload.p)
           THEN /\ frames' = emplaced
                /\ op' = "failing"
                /\ end' = payload.p
                /\ UNCHANGED cursor
           ELSE /\ frames' = Append(emplaced,
                                    [type |-> Inner(T),
                                     message |-> GetTheOneValue(T, result),
                                     buffer_end |-> payload.last,
                                     nesting_level |-> payload.level,
                                     index |-> TopMessageFieldIndex + 1])
                /\ cursor' = payload.p
                /\ UNCHANGED << op, end >>
    /\ UNCHANGED << type, target, before, buffer_end, merges,
                    source, size, fields_size, buffer, message, ok, declared, undeclared >>

(* The message of the innermost activation, back in its caller's message. *)
Returned ==
    LET caller == frames[Len(frames) - 1]
        T == FieldsOf(caller.type)[Top.index].type
    IN  [SubSeq(frames, 1, Len(frames) - 1) EXCEPT
            ![Len(frames) - 1].message[Top.index] = WithTheOneValue(T, Top.message)]

(* ParseFields at buffer == buffer_end: return buffer, to ParseFields of   *)
(* the enclosing message or to MergeFromBuffer.                            *)
ReturnBuffer ==
    /\ op = "parsing"
    /\ cursor = Top.buffer_end
    /\ IF Len(frames) = 1
       THEN /\ frames' = << >>
            /\ message' = Top.message
            /\ ok' = TRUE
            /\ end' = cursor
            /\ op' = "parse"
       ELSE /\ frames' = Returned
            /\ UNCHANGED << message, ok, end, op >>
    /\ UNCHANGED << type, target, before, buffer_end, merges,
                    source, size, fields_size, buffer, cursor, declared, undeclared >>

(* return nullptr, to ParseFields of the enclosing message or to           *)
(* MergeFromBuffer; the message keeps what was parsed into it.             *)
ReturnNull ==
    /\ op = "failing"
    /\ IF Len(frames) = 1
       THEN /\ frames' = << >>
            /\ message' = Top.message
            /\ ok' = FALSE
            /\ op' = "parse"
       ELSE /\ frames' = Returned
            /\ UNCHANGED << message, ok, op >>
    /\ UNCHANGED << type, target, before, buffer_end, merges,
                    source, size, fields_size, buffer, end, cursor, declared, undeclared >>

----------------------------------------------------------------------------
(* codec::ComputeSerializedSizeOfFields and ComputeSerializedValueSize(    *)
(* Message), one activation at a time.  A frame holds the type of the      *)
(* message of its ComputeSerializedSizeOfFields call, the index of the     *)
(* first of the fields still to add, and byte_count_so_far; its message is *)
(* a reference into |source|.                                              *)

(* The message of the k-th activation and of those inside it, m being the  *)
(* message of the i-th: the reference each activation was called with.     *)
RECURSIVE MessageOfFrame(_, _, _)
MessageOfFrame(m, i, k) ==
    IF i = k THEN m
    ELSE MessageOfFrame(
             GetTheOneValue(FieldsOf(frames[i].type)[frames[i].index].type,
                            m[frames[i].index]),
             i + 1, k)

TopMessage == MessageOfFrame(source, 1, Len(frames))

(* The field at the index of the innermost activation is a nested message  *)
(* that is stored: ComputeSerializedValueSize(Message) is called for it.   *)
TopSizesAMessage ==
    /\ Top.index <= Len(FieldsOf(Top.type))
    /\ LET T == FieldsOf(Top.type)[Top.index].type
       IN  IsNestedMessageField(T) /\ IsStoringOneValue(T, TopMessage[Top.index])

(* pb::ComputeSerializedSize(source) calls ComputeSerializedSizeOfFields. *)
StartSize ==
    /\ op = "link"
    /\ frames' = << [type |-> type, index |-> 1, byte_count_so_far |-> 0] >>
    /\ op' = "sizing"
    /\ UNCHANGED << type, target, before, buffer_end, merges,
                    source, size, fields_size, buffer, message, ok, end, cursor,
                    declared, undeclared >>

(* ComputeSerializedSizeOfFields for a first field that is not a stored    *)
(* nested message, up to its call for the remaining fields.                *)
SizeOneField ==
    /\ op = "sizing"
    /\ Top.index <= Len(FieldsOf(Top.type))
    /\ ~TopSizesAMessage
    /\ frames' = [frames EXCEPT
                    ![Len(frames)].byte_count_so_far =
                        @ + SizeOfFirstField(FieldsOf(Top.type)[Top.index],
                                             TopMessage[Top.index]),
                    ![Len(frames)].index = @ + 1]
    /\ UNCHANGED << op, type, target, before, buffer_end, merges,
                    source, size, fields_size, buffer, message, ok, end, cursor,
                    declared, undeclared >>

(* ComputeSerializedSizeOfFields for a first field that is a stored nested *)
(* message, up to the call of ComputeSerializedSizeOfFields for it.        *)
DescendIntoSize ==
    /\ op = "sizing"
    /\ TopSizesAMessage
    /\ LET T == FieldsOf(Top.type)[Top.index].type
       IN  frames' = Append(frames,
                            [type |-> Inner(T), index |-> 1, byte_count_so_far |-> 0])
    /\ UNCHANGED << op, type, target, before, buffer_end, merges,
                    source, size, fields_size, buffer, message, ok, end, cursor,
                    declared, undeclared >>

(* The base case returns: to ComputeSerializedValueSize(Message), which    *)
(* returns to ComputeSerializedSizeOfFields of the enclosing message, or   *)
(* to pb::ComputeSerializedSize.                                           *)
ReturnSize ==
    /\ op = "sizing"
    /\ Top.index > Len(FieldsOf(Top.type))
    /\ LET payload_size == SizeOfNoFields(Top.byte_count_so_far)
           caller == frames[Len(frames) - 1]
           kTagSize == ComputeSerializedValueSizeUnsigned(
                           GetTagForSerialization(FieldsOf(caller.type)[caller.index]))
       IN  IF Len(frames) = 1
           THEN /\ frames' = << >>
                /\ fields_size' = payload_size
                /\ size' = SizeOrMinusOne(payload_size)
                /\ op' = "size"
           ELSE /\ frames' = [SubSeq(frames, 1, Len(frames) - 1) EXCEPT
                                ![Len(frames) - 1].byte_count_so_far =
                                    @ + kTagSize + SizeWithLength(payload_size),
                                ![Len(frames) - 1].index = @ + 1]
                /\ UNCHANGED << op, size, fields_size >>
    /\ UNCHANGED << type, target, before, buffer_end, merges,
                    source, buffer, message, ok, end, cursor, declared, undeclared >>

----------------------------------------------------------------------------
(* parse_unittest.cc, TooDeeplyNestedMessages: struct Message holds        *)
(* std::unique_ptr<Message> next as field 1, and the wire bytes of a chain *)
(* are built from the inside out.                                          *)

Chain == TMessage("Chain")

(* The count of |next| links of a chain, as the test walks them. *)
RECURSIVE Depth(_)
Depth(chain) == IF chain[1] = << >> THEN 0 ELSE 1 + Depth(chain[1][1])

(* The largest number of nested levels built. *)
MaxLevels == 102

(* The largest number of innermost levels carried by the undeclared field. *)
MaxUndeclared == 2

(* A field number that Message does not declare. *)
kUndeclaredFieldNumber == kNextFieldNumber + 1

InitNesting ==
    /\ op = "init"
    /\ type = Chain
    /\ target = Chain
    /\ before = DefaultValue(Chain)
    /\ merges = 0
    /\ buffer_end = 0
    /\ source = DefaultValue(Chain)
    /\ size = NotComputed
    /\ fields_size = NotComputed
    /\ buffer = << >>
    /\ message = DefaultValue(Chain)
    /\ ok = TRUE
    /\ end = 0
    /\ frames = << >>
    /\ cursor = 0
    /\ declared = 0
    /\ undeclared = 0

(* buffer.insert(begin, length); buffer.insert(begin, tag): one more level *)
(* around the bytes, carried by the field |field_number|.  The Message of  *)
(* the round before is gone.                                               *)
Wrap(field_number) ==
    /\ op \in {"init", "wrap", "parse"}
    /\ source = DefaultValue(Chain)
    /\ declared + undeclared < MaxLevels
    /\ field_number = kUndeclaredFieldNumber => declared = 0
    /\ field_number = kNextFieldNumber => undeclared <= MaxUndeclared
    /\ buffer' = SerializeValueUnsigned(MakeTag(field_number, kLengthDelimited))
                 \o SerializeValueUnsigned(NatBits(Len(buffer), 32))
                 \o buffer
    /\ declared' = IF field_number = kNextFieldNumber THEN declared + 1 ELSE declared
    /\ undeclared' = IF field_number = kNextFieldNumber THEN undeclared
                     ELSE undeclared + 1
    /\ message' = DefaultValue(target)
    /\ ok' = TRUE
    /\ end' = 0
    /\ op' = "wrap"
    /\ UNCHANGED << type, target, before, buffer_end, merges,
                    source, size, fields_size, frames, cursor >>

(* A writer puts its chain behind the |next| of a new Message. *)
Link ==
    /\ op \in {"init", "link", "size"}
    /\ buffer = << >>
    /\ Depth(source) < MaxLevels
    /\ source' = << << source >> >>
    /\ size' = NotComputed
    /\ fields_size' = NotComputed
    /\ op' = "link"
    /\ UNCHANGED << type, target, before, buffer_end, merges,
                    buffer, message, ok, end, frames, cursor, declared, undeclared >>

NextNesting ==
    \/ \E field_number \in {kNextFieldNumber, kUndeclaredFieldNumber} :
          Wrap(field_number)
    \/ StartMerge
    \/ ParseOneField
    \/ DescendIntoMessage
    \/ ReturnBuffer
    \/ ReturnNull
    \/ Link
    \/ StartSize
    \/ SizeOneField
    \/ DescendIntoSize
    \/ ReturnSize

SpecNesting == InitNesting /\ [][NextNesting]_vars

----------------------------------------------------------------------------
(* Nesting depth, checked under SpecNesting *)

(* A parse of the whole buffer has returned. *)
Parsed == op = "parse"

(* C8, as stated: every buffer that encodes more than                      *)
(* kMaxMessageNestingDepth levels of nested length-delimited records fails *)
(* to merge, whether declared or undeclared fields carry the levels.       *)
NestingRefusalWhicheverField ==
    (Parsed /\ declared + undeclared > kMaxMessageNestingDepth) => ~ok

(* C8, amended: MergeFromBuffer fails exactly when more than               *)
(* kMaxMessageNestingDepth of the levels are carried by declared           *)
(* nested-record fields; the levels inside a field the record does not     *)
(* declare are skipped and not counted.                                    *)
NestingRefusal ==
    Parsed => (ok <=> declared <= kMaxMessageNestingDepth)

(* A buffer of 101 declared levels around undeclared ones was refused. *)
NestingRefusalWitness ==
    /\ Parsed
    /\ declared = kMaxMessageNestingDepth + 1
    /\ undeclared >= 1
    /\ ~ok

(* C9: parsed from nesting level 0, every chain of 1 to                    *)
(* kMaxMessageNestingDepth records nested through the declared field       *)
(* parses to its end and gives a Message of as many links as levels were   *)
(* encoded; the chain of kMaxMessageNestingDepth + 1 and the longer ones   *)
(* fail.                                                                   *)
NestingBoundary ==
    (Parsed /\ undeclared = 0 /\ declared >= 1) =>
        IF declared <= kMaxMessageNestingDepth
        THEN ok /\ end = Len(buffer) /\ Depth(message) = declared
        ELSE ~ok

(* The chain of kMaxMessageNestingDepth levels was parsed. *)
NestingBoundaryWitness ==
    /\ Parsed
    /\ undeclared = 0
    /\ declared = kMaxMessageNestingDepth
    /\ ok
    /\ Depth(message) = kMaxMessageNestingDepth

(* The length of the encoding of a chain of n links: each link is a tag    *)
(* byte, the varint of the length of the chain behind it, and that chain.  *)
RECURSIVE EncodedChainLength(_)
EncodedChainLength(n) ==
    IF n = 0 THEN 0
    ELSE LET rest == EncodedChainLength(n - 1)
         IN  1 + (IF rest < 128 THEN 1 ELSE IF rest < 16384 THEN 2 ELSE 3) + rest

(* pb::ComputeSerializedSize(source) has returned. *)
Sized == op = "size"

(* C10, as stated: the size computation of a record nested deeper than     *)
(* kMaxMessageNestingDepth returns kWouldSerializeTooDeeply.               *)
TooDeepSentinel ==
    (Sized /\ Depth(source) > kMaxMessageNestingDepth) =>
        fields_size = kWouldSerializeTooDeeply

(* C10, amended: the size computation does not check the nesting depth;    *)
(* for a chain of any depth, deeper than kMaxMessageNestingDepth or not,   *)
(* it returns the exact encoded length, and never                          *)
(* kWouldSerializeTooDeeply.                                               *)
SizeIgnoresNestingDepth ==
    Sized => /\ fields_size = EncodedChainLength(Depth(source))
             /\ fields_size # kWouldSerializeTooDeeply
             /\ size = fields_size

(* The size of a chain deeper than the limit was computed. *)
SizeIgnoresNestingDepthWitness ==
    /\ Sized
    /\ Depth(source) = kMaxMessageNestingDepth + 1
    /\ size > 0

----------------------------------------------------------------------------
(* A writer and a reader of two versions of one protocol: the writer       *)
(* assigns its record, computes its size, and serializes it into a buffer  *)
(* of that size; the reader either parses (a leading part of) the buffer   *)
(* into a new Message with pb::Parse, or merges the buffer into the        *)
(* Message it holds with pb::MergeFromBuffer.                              *)

(* The greatest k of the records Sample(type, k) a writer assigns. *)
MaxSample == 3

(* The greatest number of buffers a reader merges into one Message. *)
MaxMerges == 2

(* The writer's and the reader's record type: the same one, or two         *)
(* versions that differ in the fields they declare.                        *)
Versions ==
    { << name, name >> : name \in {"Scalars", "Records", "Repeats", "Maps"} }
    \cup { << "Scalars", "Sparse" >>, << "Sparse", "Scalars" >>,
           << "Records", "EmptyMessage" >>, << "Repeats", "EmptyMessage" >>,
           << "Elements", "EmptyMessage" >>,
           << "Message_V1", "Message_V2" >>, << "Message_V2", "Message_V1" >>,
           << "Optional_V1", "Repeated_V2" >>, << "Repeated_V2", "Optional_V1" >> }

Init ==
    /\ op = "init"
    /\ \E version \in Versions :
          /\ type = TMessage(version[1])
          /\ target = TMessage(version[2])
    /\ source = DefaultValue(type)
    /\ size = NotComputed
    /\ fields_size = NotComputed
    /\ buffer = << >>
    /\ message = DefaultValue(target)
    /\ before = DefaultValue(target)
    /\ merges = 0
    /\ buffer_end = 0
    /\ ok = TRUE
    /\ end = 0
    /\ frames = << >>
    /\ cursor = 0
    /\ declared = 0
    /\ undeclared = 0

(* The writer assigns its record; the buffer of the round before is gone. *)
(* A reader that was sent a damaged buffer takes no more of them.          *)
Assign(k) ==
    /\ merges < MaxMerges
    /\ op \notin {"damage", "pb::Parse of damage"}
    /\ source' = Sample(type, k)
    /\ size' = NotComputed
    /\ fields_size' = NotComputed
    /\ buffer' = << >>
    /\ before' = message
    /\ buffer_end' = 0
    /\ ok' = TRUE
    /\ end' = 0
    /\ op' = "assign"
    /\ UNCHANGED << type, target, message, merges, frames, cursor, declared, undeclared >>

(* The element types an element of which may store no value. *)
ElementStoresOneValueOrNone(ET) == ET.k \in {"optional", "unique_ptr", "string_view"}

(* The writer resets one element of one of its record's containers: the    *)
(* std::optional to std::nullopt, the std::unique_ptr to null, the         *)
(* std::string_view to the null view.  The container keeps its size.  (It  *)
(* is the writers whose reader declares no field that do so: what they     *)
(* write does not depend on the reader.)                                   *)
ResetElement ==
    /\ op = "assign"
    /\ FieldsOf(target) = << >>
    /\ \E i \in 1..Len(FieldsOf(type)) :
          /\ FieldsOf(type)[i].type.k = "vector"
          /\ ElementStoresOneValueOrNone(FieldsOf(type)[i].type.of)
          /\ \E j \in 1..Len(source[i]) :
                /\ source[i][j] # << >>
                /\ source' = [source EXCEPT ![i][j] = << >>]
    /\ op' = "reset"
    /\ UNCHANGED << type, target, size, fields_size, buffer, message, before, merges,
                    buffer_end, ok, end, frames, cursor, declared, undeclared >>

(* pb::ComputeSerializedSize(source), then pb::Serialize(source, buffer)   *)
(* into a buffer of that size.                                             *)
CallSerialize ==
    /\ op \in {"assign", "reset"}
    /\ \E computed \in {ComputeSerializedSizeOfFields(source, FieldsOf(type), 1, 0)} :
          /\ fields_size' = computed
          /\ size' = SizeOrMinusOne(computed)
          /\ SizeOrMinusOne(computed) >= 0
    /\ buffer' = Serialize(type, source)
    /\ op' = "serialize"
    /\ UNCHANGED << type, target, source, message, before, merges, buffer_end, ok, end,
                    frames, cursor, declared, undeclared >>

(* What one byte of a buffer in transit is changed by: a length, a field   *)
(* number or a wire type off by one, or a continuation bit flipped.        *)
Damages == {1, 128, 255}

(* The buffer is damaged on its way to a reader that holds no Message yet. *)
Damage ==
    /\ op = "serialize"
    /\ merges = 0
    /\ \E i \in 1..Len(buffer) : \E d \in Damages :
          buffer' = [buffer EXCEPT ![i] = (@ + d) % 256]
    /\ op' = "damage"
    /\ UNCHANGED << type, target, source, size, fields_size, message, before, merges,
                    buffer_end, ok, end, frames, cursor, declared, undeclared >>

(* message = pb::Parse<Message>(buffer, buffer + last): a reader that      *)
(* holds no Message yet parses the leading |last| bytes of the buffer as   *)
(* written, or the whole of a damaged buffer, into a new one.              *)
CallParse ==
    /\ op \in {"serialize", "damage"}
    /\ merges = 0
    /\ \E last \in (IF op = "damage" THEN {Len(buffer)} ELSE 0..Len(buffer)) :
        \E r \in {ParseFields(buffer, 0, last, 0, FieldsOf(target), DefaultValue(target))} :
          /\ ok' = ~Failed(r.p)
          /\ end' = r.p
          /\ message' = IF Failed(r.p) THEN DefaultValue(target) ELSE r.v
          /\ merges' = IF Failed(r.p) THEN 0 ELSE 1
          /\ buffer_end' = last
    /\ before' = DefaultValue(target)
    /\ op' = IF op = "damage" THEN "pb::Parse of damage" ELSE "pb::Parse"
    /\ UNCHANGED << type, target, source, size, fields_size, buffer, frames, cursor,
                    declared, undeclared >>

(* pb::MergeFromBuffer(buffer, buffer + size, message) *)
CallMergeFromBuffer ==
    /\ op \in {"serialize", "pb::Parse", "pb::MergeFromBuffer"}
    /\ merges < MaxMerges
    /\ \E r \in {MergeFromBuffer(buffer, 0, Len(buffer), target, message)} :
          /\ ok' = r.ok
          /\ end' = r.p
          /\ message' = r.v
    /\ before' = message
    /\ merges' = merges + 1
    /\ buffer_end' = Len(buffer)
    /\ op' = "pb::MergeFromBuffer"
    /\ UNCHANGED << type, target, source, size, fields_size, buffer, frames, cursor,
                    declared, undeclared >>

Next ==
    \/ \E k \in 0..MaxSample : Assign(k)
    \/ ResetElement
    \/ CallSerialize
    \/ Damage
    \/ CallParse
    \/ CallMergeFromBuffer

Spec == Init /\ [][Next]_vars

----------------------------------------------------------------------------
(* The codec, checked under Spec *)

(* The reader has parsed the whole buffer, as the writer serialized it,    *)
(* into a value-initialized Message.                                       *)
ParsedWholeIntoNew ==
    /\ op \in {"pb::Parse", "pb::MergeFromBuffer"}
    /\ buffer_end = Len(buffer)
    /\ before = DefaultValue(target)

(* The object with only the elements of its containers that store a value: *)
(* without the null unique_ptr, empty optional and null string_view        *)
(* elements.                                                               *)
RECURSIVE StoredElements(_, _)
RECURSIVE StoredElementsFrom(_, _, _)
StoredElementsFrom(ET, container, i) ==
    IF i > Len(container) THEN << >>
    ELSE (IF IsStoringOneValue(ET, container[i])
          THEN << StoredElements(ET, container[i]) >>
          ELSE << >>)
         \o StoredElementsFrom(ET, container, i + 1)

StoredElements(T, v) ==
    CASE T.k \in {"message", "pair"} ->
           Eager([i \in 1..Len(FieldsOf(T)) |-> StoredElements(FieldsOf(T)[i].type, v[i])])
      [] T.k \in {"optional", "unique_ptr"} ->
           IF v = << >> THEN << >> ELSE << StoredElements(T.of, v[1]) >>
      [] T.k = "vector" -> StoredElementsFrom(T.of, v, 1)
      [] OTHER -> v

(* C1 as stated: a record whose size computes, serialized and then parsed  *)
(* into a new record, yields an equal record: the parse succeeds, and      *)
(* presence, element count and order, and contents are the same.           *)
RoundTrip ==
    (ParsedWholeIntoNew /\ type = target /\ size >= 0)
    => (ok /\ message = source)

(* C1: a record whose size computes, serialized and then parsed into a new *)
(* record, succeeds up to the end of the buffer and yields the record      *)
(* without the container elements that store no value: an equal record     *)
(* exactly when every element of its containers stores a value.            *)
RoundTripOfStoredElements ==
    (ParsedWholeIntoNew /\ type = target /\ size >= 0)
    => /\ ok
       /\ end = Len(buffer)
       /\ message = StoredElements(type, source)
       /\ (message = source) <=> (StoredElements(type, source) = source)

(* A record with a container of unique_ptr that holds a Thing, and others  *)
(* of one element each, has made the round trip.                           *)
RoundTripWitness ==
    /\ ParsedWholeIntoNew
    /\ type = TMessage("Repeats")
    /\ target = type
    /\ source = Sample(type, 1)
    /\ source[4] = << << Sample(TMessage("Thing"), 0) >> >>
    /\ ok
    /\ message = source

(* Every length prefix inside the encoding of the object is the byte count *)
(* of the payload written after it.                                        *)
RECURSIVE LengthPrefixed(_, _)
LengthPrefixed(T, v) ==
    CASE T.k \in {"string", "string_view"} ->
           ~IsStoringOneValue(T, v)
           \/ With(IF T.k = "string" THEN v ELSE v[1],
                   LAMBDA payload :
                     SerializeValue(T, v)
                     = SerializeValueUnsigned(NatBits(Len(payload), 32)) \o payload)
      [] T.k \in {"message", "pair"} ->
           /\ With(SerializeFields(v, FieldsOf(T), 1),
                   LAMBDA payload :
                     SerializeValue(T, v)
                     = SerializeValueUnsigned(NatBits(Len(payload), 32)) \o payload)
           /\ \A i \in 1..Len(FieldsOf(T)) : LengthPrefixed(FieldsOf(T)[i].type, v[i])
      [] T.k \in {"optional", "unique_ptr"} ->
           v = << >> \/ LengthPrefixed(T.of, v[1])
      [] T.k = "vector" ->
           IF CanEncodeAsAPackedRepeatedField(T)
           THEN v = << >>
                \/ With(SerializePackedElements(T.of, v, 1),
                        LAMBDA payload :
                          SerializeFields(<< v >>, << Field(T, 1) >>, 1)
                          = SerializeValueUnsigned(MakeTag(1, kLengthDelimited))
                            \o SerializeValueUnsigned(NatBits(Len(payload), 32))
                            \o payload)
           ELSE \A j \in 1..Len(v) : LengthPrefixed(T.of, v[j])
      [] OTHER -> TRUE

(* C2: the number of bytes Serialize writes is ComputeSerializedSize, and  *)
(* every length prefix written (of a string, a nested record, a map entry, *)
(* a packed payload) is the byte count of the payload that follows it.     *)
LengthConsistency ==
    op = "serialize"
    => /\ size >= 0
       /\ Len(buffer) = size
       /\ LengthPrefixed(type, source)

(* A record of repeated fields, packed and unpacked and of map entries,    *)
(* of three elements each, is serialized into as many bytes as computed.   *)
LengthConsistencyWitness ==
    /\ op = "serialize"
    /\ type = TMessage("Repeats")
    /\ source = Sample(type, 3)
    /\ Len(source[5]) = 3
    /\ size = Len(buffer)
    /\ size > 100

(* The offsets of |bytes| at which a field of the outermost record begins  *)
(* or the last one ends, from |offset| on.                                  *)
RECURSIVE FieldBoundaries(_, _)
FieldBoundaries(bytes, offset) ==
    IF offset < 0 \/ offset >= Len(bytes) THEN {offset}
    ELSE With(ParseVarint(bytes, offset, Len(bytes), 32),
              LAMBDA tag :
                IF Failed(tag.p) THEN {offset}
                ELSE {offset}
                     \cup FieldBoundaries(
                              bytes,
                              SkipValueAfterTag(bytes, tag.p, Len(bytes), 0,
                                                GetWireTypeFromTag(tag.v))))

(* The reader has parsed or merged [0, buffer_end) of the buffer. *)
Read == op \in {"pb::Parse", "pb::Parse of damage", "pb::MergeFromBuffer"}

(* C3: a parse of the range [0, buffer_end) of a buffer reads no byte      *)
(* outside the range, nor outside the sub-range of the nested record it is *)
(* in; it returns exactly the end of the range when it succeeds and null   *)
(* when it fails, and it fails when the range ends inside a field.         *)
ParseStaysInRange ==
    Read
    => /\ end # OutOfBounds
       /\ ok => end = buffer_end
       /\ ~ok => end = NULLPTR
       /\ buffer_end \notin FieldBoundaries(buffer, 0) => ~ok

(* A parse of a range that ends short, inside a field of a record that     *)
(* holds nested records, has returned null.                                *)
ParseStaysInRangeWitness ==
    /\ op = "pb::Parse"
    /\ type = TMessage("Records")
    /\ target = type
    /\ source = Sample(type, 3)
    /\ buffer_end = Len(buffer) - 1
    /\ ~ok
    /\ end = NULLPTR

(* The bytes of the range [0, buffer_end) that the reader has parsed. *)
BytesRead == SubSeq(buffer, 1, buffer_end)

(* The fields of the outermost record in |bytes| from |offset| on, in wire *)
(* order: the field number and the wire type of each tag, the offset of    *)
(* the value after the tag, and the offset after the value.                *)
RECURSIVE Occurrences(_, _)
Occurrences(bytes, offset) ==
    IF offset < 0 \/ offset >= Len(bytes) THEN << >>
    ELSE With(ParseVarint(bytes, offset, Len(bytes), 32),
              LAMBDA tag :
                IF Failed(tag.p) THEN << >>
                ELSE With(SkipValueAfterTag(bytes, tag.p, Len(bytes), 0,
                                            GetWireTypeFromTag(tag.v)),
                          LAMBDA next :
                            << [number |-> GetFieldNumberFromTag(tag.v),
                                wire_type |-> GetWireTypeFromTag(tag.v),
                                value |-> tag.p,
                                next |-> next] >>
                            \o Occurrences(bytes, next)))

(* Those of the field |field_number|. *)
OccurrencesOf(field_number, bytes) ==
    SelectSeq(Occurrences(bytes, 0), LAMBDA o : o.number = field_number)

(* The value of one occurrence alone: parsed into a value-initialized      *)
(* object of the field's type.                                             *)
ValueOf(o, bytes, T) ==
    ParseValue(bytes, o.value, o.next, 0, T, DefaultValue(T)).v

(* The payloads of length-delimited occurrences, one after the other. *)
RECURSIVE Payloads(_, _, _)
Payloads(occurrences, bytes, j) ==
    IF j > Len(occurrences) THEN << >>
    ELSE SubSeq(bytes,
                ParseVarint(bytes, occurrences[j].value, Len(bytes), 32).p + 1,
                occurrences[j].next)
         \o Payloads(occurrences, bytes, j + 1)

(* The record |old| (of an optional or a unique_ptr that holds none, a     *)
(* value-initialized one) with the fields of |payload| merged into it.     *)
RecordMerged(T, old, payload) ==
    WithTheOneValue(
        T,
        MergeFromBuffer(payload, 0, Len(payload), Inner(T),
                        IF IsStoringOneValue(T, old) THEN GetTheOneValue(T, old)
                        ELSE DefaultValue(Inner(T))).v)

(* The reader has parsed or merged the range with success. *)
Merged == Read /\ ok

(* C4 as stated: after a successful merge each non-repeated field holds    *)
(* the value of the last occurrence of its field number in the bytes, and  *)
(* a field whose number did not occur holds the value it had before.       *)
LastOccurrenceWins ==
    Merged
    => \A i \in 1..Len(FieldsOf(target)) :
         With(OccurrencesOf(FieldsOf(target)[i].num, BytesRead),
              LAMBDA occurrences :
                IsRepeatedField(FieldsOf(target)[i].type)
                \/ message[i]
                   = IF occurrences = << >> THEN before[i]
                     ELSE ValueOf(occurrences[Len(occurrences)], BytesRead,
                                  FieldsOf(target)[i].type))

(* C4: after a successful merge, a non-repeated field whose number did not *)
(* occur in the bytes holds the value it had before; one that is not a     *)
(* record holds the value of the last occurrence; one that is a record (or *)
(* an optional or unique_ptr of a record) holds the record it had before   *)
(* with the fields of every occurrence merged into it, in wire order.      *)
MergeOfSingularFields ==
    Merged
    => \A i \in 1..Len(FieldsOf(target)) :
         With(OccurrencesOf(FieldsOf(target)[i].num, BytesRead),
              LAMBDA occurrences :
                IsRepeatedField(FieldsOf(target)[i].type)
                \/ message[i]
                   = IF occurrences = << >> THEN before[i]
                     ELSE IF IsNestedMessageField(FieldsOf(target)[i].type)
                     THEN RecordMerged(FieldsOf(target)[i].type, before[i],
                                       Payloads(occurrences, BytesRead, 1))
                     ELSE ValueOf(occurrences[Len(occurrences)], BytesRead,
                                  FieldsOf(target)[i].type))

(* A second buffer is merged into a record: an optional that the buffer    *)
(* does not hold keeps its value, and a nested record keeps the string     *)
(* that the last occurrence of the record does not hold.                   *)
MergeOfSingularFieldsWitness ==
    /\ op = "pb::MergeFromBuffer"
    /\ ok
    /\ type = TMessage("Records")
    /\ target = type
    /\ before = Sample(type, 3)
    /\ source = Sample(type, 2)
    /\ source[4] = << >>
    /\ message[4] = before[4]
    /\ message[4] # << >>
    /\ message[1] = << before[1][1], source[1][2] >>
    /\ message[1] # source[1]

(* The index of the field |field_number| in the writer's FieldList; 0 when *)
(* the writer's record type does not declare it.                           *)
WrittenField(field_number) ==
    IF \E j \in 1..Len(FieldsOf(type)) : FieldsOf(type)[j].num = field_number
    THEN CHOOSE j \in 1..Len(FieldsOf(type)) : FieldsOf(type)[j].num = field_number
    ELSE 0

(* The values that Serialize writes for the j-th field of the writer's     *)
(* record, in wire order: the elements of a container that store a value,  *)
(* or the one value of a field that is not repeated and stores one.        *)
WrittenValues(j) ==
    IF j = 0 THEN << >>
    ELSE IF IsRepeatedField(FieldsOf(type)[j].type)
    THEN StoredElementsFrom(FieldsOf(type)[j].type.of, source[j], 1)
    ELSE IF IsStoringOneValue(FieldsOf(type)[j].type, source[j])
    THEN << StoredElements(Inner(FieldsOf(type)[j].type),
                           GetTheOneValue(FieldsOf(type)[j].type, source[j])) >>
    ELSE << >>

(* The reader has parsed or merged the whole buffer as the writer          *)
(* serialized it.                                                          *)
MergedWhole ==
    /\ op \in {"pb::Parse", "pb::MergeFromBuffer"}
    /\ buffer_end = Len(buffer)
    /\ ok

(* C5, as stated: a merge of a buffer leaves every repeated field with the *)
(* elements it held before followed by the elements of the buffer in wire  *)
(* order, so that b1 and then b2 leave the elements before, those of b1,   *)
(* those of b2; merging the bytes that a record was parsed from doubles    *)
(* the length of every container.                                          *)
MergeAdditivity ==
    MergedWhole
    => \A i \in 1..Len(FieldsOf(target)) :
         IsRepeatedField(FieldsOf(target)[i].type)
         => With(WrittenValues(WrittenField(FieldsOf(target)[i].num)),
                 LAMBDA written :
                   /\ message[i] = before[i] \o written
                   /\ before[i] = written => Len(message[i]) = 2 * Len(before[i]))

(* C5, amended: a merge of a buffer leaves every repeated field that is a  *)
(* sequence container with the elements it held before followed by the     *)
(* elements of the buffer in wire order, and merging the bytes that a      *)
(* record was parsed from doubles the length of every sequence container;  *)
(* a container of unique keys (std::map) keeps every entry it held, holds  *)
(* no key twice, and takes of the buffer's entries those whose key it did  *)
(* not hold, so that merging the bytes it was parsed from leaves it as it  *)
(* was.                                                                    *)
MergeAdditivityOfSequenceContainers ==
    MergedWhole
    => \A i \in 1..Len(FieldsOf(target)) :
         IsRepeatedField(FieldsOf(target)[i].type)
         => With(WrittenValues(WrittenField(FieldsOf(target)[i].num)),
                 LAMBDA written :
                   IF FieldsOf(target)[i].type.unique
                   THEN /\ \A j \in 1..Len(before[i]) :
                             \E n \in 1..Len(message[i]) : message[i][n] = before[i][j]
                        /\ \A a, b \in 1..Len(message[i]) :
                             a # b => message[i][a][1] # message[i][b][1]
                        /\ {message[i][n][1] : n \in 1..Len(message[i])}
                             = {before[i][n][1] : n \in 1..Len(before[i])}
                               \cup {written[n][1] : n \in 1..Len(written)}
                        /\ \A n \in 1..Len(message[i]) :
                             \/ \E j \in 1..Len(before[i]) : message[i][n] = before[i][j]
                             \/ \E j \in 1..Len(written) : message[i][n] = written[j]
                        /\ before[i] = written => message[i] = before[i]
                   ELSE /\ message[i] = before[i] \o written
                        /\ before[i] = written => Len(message[i]) = 2 * Len(before[i]))

(* The bytes that a record of three-element containers was parsed from are *)
(* merged into it again: six elements each, the three twice over.          *)
MergeAdditivityWitness ==
    /\ op = "pb::MergeFromBuffer"
    /\ ok
    /\ merges = 2
    /\ type = TMessage("Repeats")
    /\ target = type
    /\ source = Sample(type, 3)
    /\ before[1] = source[1]
    /\ Len(message[1]) = 6
    /\ message[1] = source[1] \o source[1]
    /\ message[3] = source[3] \o source[3]

(* The writer's record as a record of the reader's type: the fields that   *)
(* both declare, and the others value-initialized.                         *)
Known ==
    Eager([i \in 1..Len(FieldsOf(target)) |->
        IF WrittenField(FieldsOf(target)[i].num) = 0
        THEN DefaultValue(FieldsOf(target)[i].type)
        ELSE source[WrittenField(FieldsOf(target)[i].num)]])

(* The writer and the reader declare the fields they share with the same   *)
(* type.                                                                   *)
SharedFieldsAgree ==
    \A i \in 1..Len(FieldsOf(target)) :
      WrittenField(FieldsOf(target)[i].num) # 0
      => FieldsOf(type)[WrittenField(FieldsOf(target)[i].num)].type
         = FieldsOf(target)[i].type

(* The writer declares a field that the reader does not. *)
WritesUnknownFields ==
    \E j \in 1..Len(FieldsOf(type)) :
      \A i \in 1..Len(FieldsOf(target)) : FieldsOf(target)[i].num # FieldsOf(type)[j].num

(* C6: a parse into a new record of a buffer that holds fields the reader  *)
(* does not declare (varint, fixed64, length-delimited, fixed32) succeeds  *)
(* and returns the end of the buffer; every field that both declare holds  *)
(* the value written, every other field of the reader is                   *)
(* value-initialized, and the record is the one parsed from a buffer       *)
(* without the unknown fields.                                             *)
Compatibility ==
    (ParsedWholeIntoNew /\ SharedFieldsAgree)
    => /\ ok
       /\ end = Len(buffer)
       /\ message = StoredElements(target, Known)
       /\ With(Serialize(target, Known),
               LAMBDA known :
                 message = MergeFromBuffer(known, 0, Len(known), target,
                                           DefaultValue(target)).v)

(* A reader that declares two of the eight fields of the writer has parsed *)
(* them and skipped the six of wire types varint, fixed64 and fixed32.     *)
CompatibilityWitness ==
    /\ ParsedWholeIntoNew
    /\ WritesUnknownFields
    /\ type = TMessage("Scalars")
    /\ target = TMessage("Sparse")
    /\ source = Sample(type, 3)
    /\ ok
    /\ message = << source[2], source[8] >>

----------------------------------------------------------------------------
(* The size limit: SerializeTest, MessagesTooBigInEncodedSize.  A         *)
(* Message's strings and containers are assigned or resized to sizes near  *)
(* kMaxSerializedSize (or near the share of it that the Message's shape    *)
(* leaves each of them), and the size of the Message is computed.          *)

(* MessagesTooBigInEncodedSize: the size of the tag of field 1. *)
kTagSize == 1

(* MessagesTooBigInEncodedSize: the size of the length varint of a string  *)
(* of nearly kMaxSerializedSize bytes.                                     *)
kLengthVarintSize == 4

(* The greatest number of bytes or elements by which a size falls short of *)
(* a share of kMaxSerializedSize.                                          *)
MaxShortfall == 16

(* The shares of kMaxSerializedSize: the whole of it, a half (two members),*)
(* a third (three elements), a quarter and an eighth (elements of four and *)
(* of eight bytes).                                                        *)
Shares == {1, 2, 3, 4, 8}

(* The sizes that strings and containers are given. *)
Sizes ==
    {0, 1, 127, 128, kMaxSerializedSize + 1, 2 * kMaxSerializedSize}
    \cup { (kMaxSerializedSize \div q) - d : q \in Shares, d \in 0..MaxShortfall }

(* The Message types whose size is computed. *)
TooBigTypes ==
    { TMessage(name) : name \in {"TooBig", "TooBigPacked", "TooBigPacked32",
                                 "TooBigNested", "TooBigBoxed", "TooBigRepeated"} }

(* An object of type T with every string of n bytes, every packed          *)
(* container of n elements, and every other container of three elements.   *)
RECURSIVE Resized(_, _)
Resized(T, n) ==
    CASE T.k \in {"string_of_size", "vector_of_size"} -> n
      [] T.k = "vector" -> << Resized(T.of, n), Resized(T.of, n), Resized(T.of, n) >>
      [] T.k \in {"optional", "unique_ptr"} -> << Resized(T.of, n) >>
      [] T.k = "message" ->
           Eager([i \in 1..Len(FieldsOf(T)) |-> Resized(FieldsOf(T)[i].type, n)])

InitSize ==
    /\ op = "init"
    /\ type \in TooBigTypes
    /\ target = type
    /\ source = Resized(type, 0)
    /\ size = NotComputed
    /\ fields_size = NotComputed
    /\ buffer = << >>
    /\ message = << >>
    /\ before = << >>
    /\ merges = 0
    /\ buffer_end = 0
    /\ ok = TRUE
    /\ end = 0
    /\ frames = << >>
    /\ cursor = 0
    /\ declared = 0
    /\ undeclared = 0

(* message.a_string.assign(n, '!') or message.a_string.resize(n) *)
Resize(n) ==
    /\ source' = Resized(type, n)
    /\ size' = NotComputed
    /\ fields_size' = NotComputed
    /\ op' = "resize"
    /\ UNCHANGED << type, target, buffer, message, before, merges, buffer_end,
                    ok, end, frames, cursor, declared, undeclared >>

(* codec::ComputeSerializedSizeOfFields(message, ProtobufFields{}) and      *)
(* pb::ComputeSerializedSize(message)                                      *)
CallComputeSerializedSize ==
    /\ op = "resize"
    /\ fields_size' = ComputeSerializedSizeOfFields(source, FieldsOf(type), 1, 0)
    /\ size' = ComputeSerializedSize(type, source)
    /\ op' = "pb::ComputeSerializedSize"
    /\ UNCHANGED << type, target, source, buffer, message, before, merges,
                    buffer_end, ok, end, frames, cursor, declared, undeclared >>

NextSize ==
    \/ \E n \in Sizes : Resize(n)
    \/ CallComputeSerializedSize

SpecSize == InitSize /\ [][NextSize]_vars

----------------------------------------------------------------------------
(* The size limit, checked under SpecSize *)

(* The number of bytes of the varint of n, for n below 2^31. *)
VarintLength(n) ==
    IF n < 128 THEN 1
    ELSE IF n < 16384 THEN 2
    ELSE IF n < 2097152 THEN 3
    ELSE IF n < 268435456 THEN 4
    ELSE 5

(* The number of bytes that the encoding of the object v of type T takes,  *)
(* counted from the wire format and without any limit: a length-delimited  *)
(* value is the varint of its payload's length and the payload.            *)
RECURSIVE EncodedLength(_, _)
RECURSIVE EncodedFieldLength(_, _)
RECURSIVE EncodedFieldsLength(_, _, _)
EncodedLength(T, v) ==
    CASE T.k = "string_of_size" -> VarintLength(v) + v
      [] T.k = "vector_of_size" ->
           VarintLength(v * (T.of.w \div 8)) + v * (T.of.w \div 8)
      [] T.k = "message" ->
           VarintLength(EncodedFieldsLength(v, FieldsOf(T), 1))
           + EncodedFieldsLength(v, FieldsOf(T), 1)

(* The bytes of one field: a tag before each value written. *)
EncodedFieldLength(F, v) ==
    CASE F.type.k = "vector_of_size" ->
           IF v = 0 THEN 0
           ELSE VarintLength(8 * F.num) + EncodedLength(F.type, v)
      [] F.type.k = "vector" ->
           IF v = << >> THEN 0
           ELSE VarintLength(8 * F.num) + EncodedLength(F.type.of, v[1])
                + EncodedFieldLength(F, Tail(v))
      [] F.type.k \in {"optional", "unique_ptr"} ->
           IF v = << >> THEN 0
           ELSE VarintLength(8 * F.num) + EncodedLength(F.type.of, v[1])
      [] OTHER -> VarintLength(8 * F.num) + EncodedLength(F.type, v)

EncodedFieldsLength(message_, fields, i) ==
    IF i > Len(fields) THEN 0
    ELSE EncodedFieldLength(fields[i], message_[i])
         + EncodedFieldsLength(message_, fields, i + 1)

(* The size of the writer's Message has been computed. *)
SizeComputed == op = "pb::ComputeSerializedSize"

(* C7: ComputeSerializedSize returns -1 whenever the encoding of the       *)
(* Message takes more than kMaxSerializedSize bytes, whether the excess is *)
(* in a single string, in a packed payload, in a nested Message or in the  *)
(* sum of several members, and the exact number of bytes otherwise; a      *)
(* Message whose only field is a string of kMaxSerializedSize - kTagSize - *)
(* kLengthVarintSize bytes has size kMaxSerializedSize exactly, and one    *)
(* whose string has kMaxSerializedSize bytes has size -1.                  *)
MaxSizeRefusal ==
    SizeComputed
    => /\ size = IF EncodedFieldsLength(source, FieldsOf(type), 1) > kMaxSerializedSize
                 THEN -1
                 ELSE EncodedFieldsLength(source, FieldsOf(type), 1)
       /\ size = -1 <=> fields_size = kWouldSerializeTooManyBytes
       /\ (type = TMessage("TooBig")
           /\ source[1] = kMaxSerializedSize - kTagSize - kLengthVarintSize)
          => size = kMaxSerializedSize
       /\ (type = TMessage("TooBig") /\ source[1] = kMaxSerializedSize) => size = -1

(* The size of a Message whose only field is a string of                   *)
(* kMaxSerializedSize - 5 bytes has been computed: kMaxSerializedSize.     *)
MaxSizeRefusalWitness ==
    /\ SizeComputed
    /\ type = TMessage("TooBig")
    /\ source = << kMaxSerializedSize - kTagSize - kLengthVarintSize >>
    /\ size = kMaxSerializedSize
    /\ fields_size = kMaxSerializedSize

----------------------------------------------------------------------------
(* Varints: parse_unittest.cc, TestParse and TestThatParseFails.  Wire     *)
(* bytes are put together from continuation bytes, a last byte and a byte  *)
(* after it, and ParseValue reads them from the first byte into a          *)
(* value-initialized result of an integral type or bool; the value parsed  *)
(* into a signed integer is then ZigZag-encoded and decoded again.         *)

(* The greatest number of bytes of a varint, its last byte included. *)
MaxVarintBytes == 11

(* Bytes with the continuation bit set. *)
ContinuationBytes == {128, 255}

(* Bytes with the continuation bit clear. *)
LastBytes == {0, 1, 2}

(* The types of |result|. *)
VarintTypes == {TUInt(8), TUInt(16), TUInt(32), TUInt(64), TInt(32), TInt(64), TBool}

InitVarint ==
    /\ op = "init"
    /\ type \in VarintTypes
    /\ target = type
    /\ source = << >>
    /\ size = NotComputed
    /\ fields_size = NotComputed
    /\ buffer = << >>
    /\ message = DefaultValue(type)
    /\ before = << >>
    /\ merges = 0
    /\ buffer_end = 0
    /\ ok = TRUE
    /\ end = 0
    /\ frames = << >>
    /\ cursor = 0
    /\ declared = 0
    /\ undeclared = 0

(* One more byte of a varint that goes on. *)
Continue(byte) ==
    /\ op \in {"init", "continue"}
    /\ Len(buffer) < MaxVarintBytes - 1
    /\ buffer' = Append(buffer, byte)
    /\ op' = "continue"
    /\ UNCHANGED << type, target, source, size, fields_size, message, before, merges,
                    buffer_end, ok, end, frames, cursor, declared, undeclared >>

(* The byte that ends the varint. *)
Terminate(byte) ==
    /\ op \in {"init", "continue"}
    /\ buffer' = Append(buffer, byte)
    /\ op' = "terminate"
    /\ UNCHANGED << type, target, source, size, fields_size, message, before, merges,
                    buffer_end, ok, end, frames, cursor, declared, undeclared >>

(* A byte of whatever follows the varint in the buffer. *)
Follow ==
    /\ op = "terminate"
    /\ buffer' = Append(buffer, 255)
    /\ op' = "follow"
    /\ UNCHANGED << type, target, source, size, fields_size, message, before, merges,
                    buffer_end, ok, end, frames, cursor, declared, undeclared >>

(* Value result{}; ParseValue(buffer, buffer + wire_bytes.size(), 0, result) *)
TestParse ==
    /\ op \in {"init", "continue", "terminate", "follow"}
    /\ \E r \in {ParseValue(buffer, 0, Len(buffer), 0, type, DefaultValue(type))} :
          /\ ok' = ~Failed(r.p)
          /\ end' = r.p
          /\ message' = r.v
    /\ buffer_end' = Len(buffer)
    /\ op' = "ParseValue"
    /\ UNCHANGED << type, target, source, size, fields_size, buffer, before, merges,
                    frames, cursor, declared, undeclared >>

(* EncodeZigZag(n) of the signed integer parsed, and DecodeZigZag of that. *)
CallZigZag ==
    /\ op = "ParseValue"
    /\ ok
    /\ type.k = "int"
    /\ source' = EncodeZigZag(message)
    /\ before' = DecodeZigZag(EncodeZigZag(message))
    /\ op' = "DecodeZigZag"
    /\ UNCHANGED << type, target, size, fields_size, buffer, message, merges,
                    buffer_end, ok, end, frames, cursor, declared, undeclared >>

NextVarint ==
    \/ \E byte \in ContinuationBytes : Continue(byte)
    \/ \E byte \in LastBytes : Terminate(byte)
    \/ Follow
    \/ TestParse
    \/ CallZigZag

SpecVarint == InitVarint /\ [][NextVarint]_vars

----------------------------------------------------------------------------
(* Varints, checked under SpecVarint *)

(* The number of the first byte of the buffer that has its continuation    *)
(* bit clear; 0 when every byte has it set.                                *)
LastByteOfVarint ==
    IF \E i \in 1..Len(buffer) : buffer[i] < 128
    THEN CHOOSE i \in 1..Len(buffer) :
           buffer[i] < 128 /\ \A j \in 1..(i - 1) : buffer[j] >= 128
    ELSE 0

(* Bit j (from 0) of the value that the varint encodes: bit j % 7 of the   *)
(* byte j \div 7, and 0 beyond the varint's last byte.                     *)
EncodedBit(j) ==
    IF j \div 7 < LastByteOfVarint
    THEN (buffer[(j \div 7) + 1] \div (2 ^ (j % 7))) % 2
    ELSE 0

(* The low w bits of the value that the varint encodes. *)
LowBits(w) == Eager([i \in 1..w |-> EncodedBit(i - 1)])

(* ParseValue has read the buffer into an integer. *)
ParsedInteger == op = "ParseValue" /\ type.k \in {"uint", "int"}

(* C11: for every width and every terminated varint, of more than          *)
(* ceil(W/7) and of more than 10 bytes too, the value parsed is the low W  *)
(* bits of the value encoded and the position returned is just after the   *)
(* byte that ends the varint; a varint whose last byte in the buffer has   *)
(* the continuation bit set fails.                                         *)
VarintTruncation ==
    ParsedInteger
    => IF LastByteOfVarint # 0
       THEN ok /\ end = LastByteOfVarint /\ message = LowBits(type.w)
       ELSE ~ok /\ end = NULLPTR

(* A varint of 11 bytes, followed by one more byte, has been parsed into   *)
(* 32 bits: what its first five bytes hold of them.                        *)
VarintTruncationWitness ==
    /\ ParsedInteger
    /\ type = TUInt(32)
    /\ Len(buffer) = MaxVarintBytes + 1
    /\ buffer[1] = 255
    /\ buffer[6] = 255
    /\ buffer[MaxVarintBytes] = 1
    /\ ok
    /\ end = MaxVarintBytes
    /\ message = LowBits(32)
    /\ message[32] = 1

(* ParseValue has read the buffer into a bool. *)
ParsedBool == op = "ParseValue" /\ type = TBool

(* The value that the varint encodes is not zero: one of its bytes, up to  *)
(* the last, has a bit set other than the continuation bit.                *)
EncodedNonZero == \E i \in 1..LastByteOfVarint : buffer[i] % 128 # 0

(* C16 as stated: a bool accepts every terminated varint, and is true      *)
(* exactly when the value encoded is not zero, for varints of every        *)
(* length.                                                                 *)
BoolIsNonZero ==
    (ParsedBool /\ LastByteOfVarint # 0)
    => ok /\ end = LastByteOfVarint /\ message = EncodedNonZero

(* C16: a bool accepts every terminated varint, and is true exactly when   *)
(* the low 64 bits of the value encoded are not all zero: a varint whose   *)
(* only set bits are the 65th or above parses as false.                    *)
BoolIsNonZeroLowBits ==
    (ParsedBool /\ LastByteOfVarint # 0)
    => /\ ok
       /\ end = LastByteOfVarint
       /\ message = (\E j \in 0..63 : EncodedBit(j) = 1)
       /\ LastByteOfVarint <= 9 => message = EncodedNonZero

(* A varint of two bytes that encodes 128 has been parsed: true. *)
BoolIsNonZeroLowBitsWitness ==
    /\ ParsedBool
    /\ buffer = << 128, 1 >>
    /\ ok
    /\ end = 2
    /\ message = TRUE

(* The signed integer parsed has been ZigZag-encoded and decoded again:    *)
(* |message| is n, |source| EncodeZigZag(n), |before| the decoded value.   *)
ZigZagged == op = "DecodeZigZag"

(* C17: DecodeZigZag(EncodeZigZag(n)) = n for every signed integer n of 32 *)
(* or 64 bits; the code has the width of n; and codes grow with the        *)
(* magnitude: 2n for n >= 0 and 2|n| - 1 for n < 0, so 0 -> 0, -1 -> 1,    *)
(* 1 -> 2, 2 -> 4.                                                         *)
ZigZagInverse ==
    ZigZagged
    => /\ before = message
       /\ Len(source) = type.w
       /\ source[1] = message[type.w]
       /\ ShiftRight(source, 1) = IF IsNegative(message) THEN BitNot(message) ELSE message
       /\ message = IntBits(0, type.w) => source = NatBits(0, type.w)
       /\ message = IntBits(-1, type.w) => source = NatBits(1, type.w)
       /\ message = IntBits(1, type.w) => source = NatBits(2, type.w)
       /\ message = IntBits(2, type.w) => source = NatBits(4, type.w)

(* -1 of 64 bits, parsed from a varint of ten bytes, has the code 1 and is *)
(* decoded from it again.                                                  *)
ZigZagInverseWitness ==
    /\ ZigZagged
    /\ type = TInt(64)
    /\ message = IntBits(-1, 64)
    /\ source = NatBits(1, 64)
    /\ before = IntBits(-1, 64)

----------------------------------------------------------------------------
(* Wire bytes written by hand, like those that follow the size prefix in   *)
(* the wire_bytes of UnpackedRepeatedFields (parse_unittest.cc) and of the *)
(* tests like it.  Tag and value pairs, of any field number and any wire   *)
(* type, are put one after the other, possibly inside one length-delimited *)
(* field of the reader's Message, and the reader parses the bytes into a   *)
(* new Message with pb::MergeFromBuffer; or the bytes are those that       *)
(* Serialize writes.                                                       *)

(* The greatest number of tag and value pairs in the wire bytes. *)
MaxPairs == 3

(* A field number that no Message of the model declares. *)
kUnknownFieldNumber == 9

(* The values written after a tag of each wire type: well-formed where the *)
(* wire format defines the wire type.                                      *)
WireValues(wire_type) ==
    CASE wire_type = kVarint -> { << 3 >>, << 150, 1 >> }
      [] wire_type = kFixed64Bit -> { << 1, 0, 0, 0, 0, 0, 0, 0 >> }
      [] wire_type = kLengthDelimited ->
           { << 0 >>, << 2, 8, 3 >>, << 8, 1, 0, 0, 0, 0, 0, 0, 0 >> }
      [] wire_type = kFixed32Bit -> { << 1, 0, 0, 0 >> }
      [] OTHER -> { << >>, << 0 >> }

(* The reader's Message type, the field of it that the pairs are written   *)
(* inside (0: none), and the Message type they are written for.            *)
WireReaders ==
    { << "Sparse", 0, "Sparse" >>, << "Repeats", 0, "Repeats" >>,
      << "Records", 0, "Records" >>, << "Records", 1, "NestedMessage" >>,
      << "Records", 3, "Thing" >>, << "Records", kUnknownFieldNumber, "Thing" >>,
      << "Maps", 0, "Maps" >> }

(* The field numbers that FieldList declares, and one it does not. *)
FieldNumbers(T) ==
    { FieldsOf(T)[i].num : i \in 1..Len(FieldsOf(T)) } \cup {kUnknownFieldNumber}

InitWire ==
    /\ op = "init"
    /\ \E reader \in WireReaders :
          /\ target = TMessage(reader[1])
          /\ cursor = reader[2]
          /\ type = TMessage(reader[3])
    /\ source = << >>
    /\ size = NotComputed
    /\ fields_size = NotComputed
    /\ buffer = << >>
    /\ message = DefaultValue(target)
    /\ before = DefaultValue(target)
    /\ merges = 0
    /\ buffer_end = 0
    /\ ok = TRUE
    /\ end = 0
    /\ frames = << >>
    /\ declared = 0
    /\ undeclared = 0

(* One more tag and the value after it: a field that no Message declares, *)
(* of wire type varint or length-delimited.                                *)
WriteUnknownField ==
    /\ op \in {"init", "wire_bytes"}
    /\ Len(source) < MaxPairs
    /\ \E wire_type \in {kVarint, kLengthDelimited} :
          \E value \in {CHOOSE v \in WireValues(wire_type) : Len(v) = 1} :
            /\ buffer' = buffer
                            \o SerializeValueUnsigned(MakeTag(kUnknownFieldNumber, wire_type))
                            \o value
            /\ source' = Append(source, [number |-> kUnknownFieldNumber,
                                         wire_type |-> wire_type,
                                         value |-> value])
    /\ op' = "wire_bytes"
    /\ UNCHANGED << type, target, size, fields_size, message, before, merges,
                    buffer_end, ok, end, frames, cursor, declared, undeclared >>

(* One more tag and the value after it, of any field number and any wire   *)
(* type: once in the wire bytes (|declared| counts it).                    *)
WriteTagAndValue ==
    /\ op \in {"init", "wire_bytes"}
    /\ Len(source) < MaxPairs
    /\ declared = 0
    /\ declared' = 1
    /\ \E field_number \in FieldNumbers(type) : \E wire_type \in 0..7 :
          \E value \in WireValues(wire_type) :
            /\ buffer' = buffer \o SerializeValueUnsigned(MakeTag(field_number, wire_type))
                                \o value
            /\ source' = Append(source, [number |-> field_number,
                                         wire_type |-> wire_type,
                                         value |-> value])
    /\ op' = "wire_bytes"
    /\ UNCHANGED << type, target, size, fields_size, message, before, merges,
                    buffer_end, ok, end, frames, cursor, undeclared >>

(* The keys and the values of the map entries written by hand. *)
MapEntries == {<< 1, 2 >>, << 1, 3 >>, << 2, 3 >>}

(* One more tag and map entry, as the wire bytes of the Maps test hold     *)
(* them: "\x0a" "\x04" "\x08\x01" "\x10\x02" is 1 -> 2 of the map field 1.   *)
(* The entries come before the one pair of any tag.                        *)
WriteMapEntry ==
    /\ op \in {"init", "wire_bytes"}
    /\ Len(source) < MaxPairs
    /\ cursor = 0
    /\ declared = 0
    /\ \E i \in 1..Len(FieldsOf(type)) : \E entry \in MapEntries :
          /\ FieldsOf(type)[i].type.k = "vector"
          /\ FieldsOf(type)[i].type.unique
          /\ buffer' = buffer
                          \o SerializeValueUnsigned(
                                 MakeTag(FieldsOf(type)[i].num, kLengthDelimited))
                          \o << 4, 8, entry[1], 16, entry[2] >>
          /\ source' = Append(source, [number |-> FieldsOf(type)[i].num,
                                       wire_type |-> kLengthDelimited,
                                       value |-> << 4, 8, entry[1], 16, entry[2] >>])
    /\ op' = "wire_bytes"
    /\ UNCHANGED << type, target, size, fields_size, message, before, merges,
                    buffer_end, ok, end, frames, cursor, declared, undeclared >>

(* The pairs become the payload of the length-delimited field |cursor|. *)
WriteAround ==
    /\ op = "wire_bytes"
    /\ cursor # 0
    /\ buffer' = SerializeValueUnsigned(MakeTag(cursor, kLengthDelimited))
                  \o SerializeValueUnsigned(NatBits(Len(buffer), 32))
                  \o buffer
    /\ op' = "wire_bytes around"
    /\ UNCHANGED << type, target, source, size, fields_size, message, before, merges,
                    buffer_end, ok, end, frames, cursor, declared, undeclared >>

(* The bytes are those of a serialized Message. *)
SerializeWire ==
    /\ op = "init"
    /\ cursor = 0
    /\ \E k \in 0..MaxSample :
          /\ before' = Sample(type, k)
          /\ buffer' = Serialize(type, Sample(type, k))
    /\ op' = "pb::Serialize"
    /\ UNCHANGED << type, target, source, size, fields_size, message, merges,
                    buffer_end, ok, end, frames, cursor, declared, undeclared >>

(* Message message{}; pb::MergeFromBuffer(buffer, buffer +                 *)
(* wire_bytes.size(), message): codec::ParseFields at nesting level 0 on   *)
(* bytes that begin with a tag.  (The tests of codec::ParseValue write a   *)
(* byte count before these bytes, which ParseValue reads before it calls   *)
(* ParseFields at level 1; the reader here is given the bytes after it.)   *)
ParseWire ==
    /\ \/ op = "wire_bytes" /\ cursor = 0
       \/ op = "wire_bytes around"
       \/ op = "pb::Serialize"
    /\ \E r \in {MergeFromBuffer(buffer, 0, Len(buffer), target, DefaultValue(target))} :
          /\ ok' = r.ok
          /\ end' = r.p
          /\ message' = r.v
    /\ buffer_end' = Len(buffer)
    /\ op' = IF op = "pb::Serialize" THEN "parse of pb::Serialize" ELSE "parse of wire_bytes"
    /\ UNCHANGED << type, target, source, size, fields_size, buffer, before, merges,
                    frames, cursor, declared, undeclared >>

(* pb::MergeFromBuffer(buffer, buffer + wire_bytes.size(), message): the  *)
(* reader merges the bytes into a Message that holds values: the one that  *)
(* the parse of the same bytes left, whether it failed or not, or one that *)
(* the program has filled.                                                 *)
MergeWire ==
    /\ op \in {"parse of wire_bytes", "parse of pb::Serialize"}
    /\ \E held \in {message, Sample(target, 1)} :
        \E r \in {MergeFromBuffer(buffer, 0, Len(buffer), target, held)} :
          /\ ok' = r.ok
          /\ end' = r.p
          /\ message' = r.v
          /\ before' = held
    /\ merges' = merges + 1
    /\ buffer_end' = Len(buffer)
    /\ op' = "merge of wire_bytes"
    /\ UNCHANGED << type, target, source, size, fields_size, buffer, frames, cursor,
                    declared, undeclared >>

NextWire ==
    \/ WriteUnknownField
    \/ WriteTagAndValue
    \/ WriteAround
    \/ SerializeWire
    \/ ParseWire
    \/ WriteMapEntry
    \/ MergeWire

SpecWire == InitWire /\ [][NextWire]_vars

----------------------------------------------------------------------------
(* Wire bytes written by hand, checked under SpecWire *)

(* The reader has parsed the pairs of |source|. *)
ParsedWireBytes == op = "parse of wire_bytes"

(* The pairs are fields of a Message that the parser enters: the reader's  *)
(* own, or one inside a field that the reader declares.                    *)
PairsAreParsed == cursor # kUnknownFieldNumber

(* The type of the field of |type| with the number of |pair|; << >> when   *)
(* |type| declares none.                                                   *)
FieldTypeOf(pair) ==
    IF \E i \in 1..Len(FieldsOf(type)) : FieldsOf(type)[i].num = pair.number
    THEN << (CHOOSE F \in {FieldsOf(type)[i] : i \in 1..Len(FieldsOf(type))} :
               F.num = pair.number).type >>
    ELSE << >>

(* The wire types a field of type FT expects. *)
ExpectedWireTypes(FT) ==
    IF IsRepeatedField(FT)
    THEN {GetWireType(FT.of)}
         \cup (IF CanEncodeAsAPackedRepeatedField(FT) THEN {kLengthDelimited} ELSE {})
    ELSE {GetWireType(FT)}

(* The pair has the number of a declared field and not its wire type. *)
WrongWireType(pair) ==
    /\ FieldTypeOf(pair) # << >>
    /\ pair.wire_type \notin ExpectedWireTypes(FieldTypeOf(pair)[1])

(* The bytes of the value without the length before them. *)
PayloadOf(pair) ==
    IF pair.wire_type = kLengthDelimited THEN Tail(pair.value) ELSE pair.value

(* The varints in |payload|, each as its bytes. *)
RECURSIVE VarintsIn(_, _)
VarintsIn(payload, from) ==
    IF from > Len(payload) THEN << >>
    ELSE IF \A i \in from..Len(payload) : payload[i] >= 128
    THEN << SubSeq(payload, from, Len(payload)) >>
    ELSE With(CHOOSE i \in from..Len(payload) :
                payload[i] < 128 /\ \A j \in from..(i - 1) : payload[j] >= 128,
              LAMBDA last :
                << SubSeq(payload, from, last) >> \o VarintsIn(payload, last + 1))

(* The elements that |payload| encodes for elements of type ET: the low    *)
(* bits of each varint, or each group of ET.w / 8 bytes, low byte first.   *)
ElementsIn(payload, ET) ==
    IF ET.k = "fixed"
    THEN Eager([k \in 1..(Len(payload) \div (ET.w \div 8)) |->
           Eager([i \in 1..ET.w |->
             (payload[(k - 1) * (ET.w \div 8) + ((i - 1) \div 8) + 1]
                \div (2 ^ ((i - 1) % 8))) % 2])])
    ELSE Eager([k \in 1..Len(VarintsIn(payload, 1)) |->
           Eager([i \in 1..ET.w |->
             IF (i - 1) \div 7 < Len(VarintsIn(payload, 1)[k])
             THEN (VarintsIn(payload, 1)[k][((i - 1) \div 7) + 1]
                     \div (2 ^ ((i - 1) % 7))) % 2
             ELSE 0])])

(* |payload| is made of whole elements of type ET. *)
WholeElements(payload, ET) ==
    IF ET.k = "fixed" THEN Len(payload) % (ET.w \div 8) = 0
    ELSE payload = << >> \/ payload[Len(payload)] < 128

(* C12: a tag with the number of a declared field and a wire type that the *)
(* field does not expect fails the parse (its value is not skipped); a     *)
(* repeated field of scalars accepts the wire type of its elements, which  *)
(* appends one element, and length-delimited, which appends every element  *)
(* of the packed payload.                                                  *)
WireTypeCheck ==
    ParsedWireBytes
    => /\ (PairsAreParsed /\ \E j \in 1..Len(source) : WrongWireType(source[j])) => ~ok
       /\ \A j \in 1..Len(source) : \A i \in 1..Len(FieldsOf(type)) :
            (/\ cursor = 0
             /\ FieldsOf(type)[i].num = source[j].number
             /\ CanEncodeAsAPackedRepeatedField(FieldsOf(type)[i].type)
             /\ ~WrongWireType(source[j]))
            => IF WholeElements(PayloadOf(source[j]), FieldsOf(type)[i].type.of)
               THEN /\ ok
                    /\ message[i] = ElementsIn(PayloadOf(source[j]),
                                               FieldsOf(type)[i].type.of)
                    /\ source[j].wire_type # kLengthDelimited => Len(message[i]) = 1
               ELSE ~ok

(* A length-delimited value for the int field 2, after a field that the    *)
(* reader skips, has failed the parse.                                     *)
WireTypeCheckWitness ==
    /\ ParsedWireBytes
    /\ target = TMessage("Sparse")
    /\ Len(source) = 2
    /\ source[1].number = kUnknownFieldNumber
    /\ source[2] = [number |-> 2, wire_type |-> kLengthDelimited, value |-> << 0 >>]
    /\ WrongWireType(source[2])
    /\ ~ok

(* The wire types of the legacy groups and the reserved ones. *)
GroupsAndReserved == {kStartGroup, kEndGroup, kReserved1, kReserved2}

(* The type of the Message that the field |number| of T holds, directly,   *)
(* in an optional or unique_ptr, or as the element of a container; << >>   *)
(* when T has no such field.                                               *)
MessageTypeOfField(T, number) ==
    IF \E i \in 1..Len(FieldsOf(T)) :
         /\ FieldsOf(T)[i].num = number
         /\ Inner(IF IsRepeatedField(FieldsOf(T)[i].type)
                  THEN FieldsOf(T)[i].type.of
                  ELSE FieldsOf(T)[i].type).k \in {"message", "pair"}
    THEN With(CHOOSE i \in 1..Len(FieldsOf(T)) : FieldsOf(T)[i].num = number,
              LAMBDA i : << Inner(IF IsRepeatedField(FieldsOf(T)[i].type)
                                  THEN FieldsOf(T)[i].type.of
                                  ELSE FieldsOf(T)[i].type) >>)
    ELSE << >>

(* The bytes of the value of a length-delimited occurrence. *)
PayloadOfOccurrence(o, bytes) ==
    SubSeq(bytes, ParseVarint(bytes, o.value, Len(bytes), 32).p + 1, o.next)

(* The wire types of the tags in |bytes|, the encoding of a Message of     *)
(* type T: those of its fields and of the fields of the Messages in it.    *)
RECURSIVE WireTypesIn(_, _)
WireTypesIn(bytes, T) ==
    With(Occurrences(bytes, 0),
         LAMBDA occurrences :
           UNION { {occurrences[j].wire_type}
                   \cup (IF /\ occurrences[j].wire_type = kLengthDelimited
                            /\ MessageTypeOfField(T, occurrences[j].number) # << >>
                         THEN WireTypesIn(
                                  PayloadOfOccurrence(occurrences[j], bytes),
                                  MessageTypeOfField(T, occurrences[j].number)[1])
                         ELSE {}) : j \in 1..Len(occurrences) })

(* The tags of |bytes| and the values after them fill |bytes| to its end. *)
TagsFill(bytes) ==
    With(Occurrences(bytes, 0),
         LAMBDA occurrences :
           IF occurrences = << >> THEN bytes = << >>
           ELSE occurrences[Len(occurrences)].next = Len(bytes))

(* C13: a tag of wire type 3, 4, 6 or 7 fails the parse, with the number   *)
(* of a declared field or of none, in the reader's Message or in a Message *)
(* nested in it; and Serialize writes no tag of these wire types, in the   *)
(* Message or in the Messages nested in it.                                *)
GroupsAndReservedRejected ==
    /\ (/\ ParsedWireBytes
        /\ PairsAreParsed
        /\ \E j \in 1..Len(source) : source[j].wire_type \in GroupsAndReserved)
       => ~ok
    /\ op \in {"pb::Serialize", "parse of pb::Serialize"}
       => /\ TagsFill(buffer)
          /\ WireTypesIn(buffer, type) \cap GroupsAndReserved = {}
          /\ WireTypesIn(buffer, type) \subseteq {kVarint, kFixed64Bit, kLengthDelimited, kFixed32Bit}

(* A start-group tag with the number of the declared field 2, inside the   *)
(* Message of the reader's field 1 and after a field that is skipped, has  *)
(* failed the parse.                                                       *)
GroupsAndReservedRejectedWitness ==
    /\ ParsedWireBytes
    /\ target = TMessage("Records")
    /\ cursor = 1
    /\ Len(source) = 2
    /\ source[1].number = kUnknownFieldNumber
    /\ source[2].number = 2
    /\ source[2].wire_type = kStartGroup
    /\ ~ok

(* The reader has read the buffer into a Message that held |Prior|. *)
ReadIntoMessage ==
    op \in {"parse of wire_bytes", "parse of pb::Serialize", "merge of wire_bytes"}

Prior == IF op = "merge of wire_bytes" THEN before ELSE DefaultValue(target)

(* The keys of the pairs of a container. *)
KeysOf(container) == {container[j][1] : j \in 1..Len(container)}

(* The map entries of the field |F| in |bytes|, in the order written. *)
EntriesOf(bytes, F) ==
    With(OccurrencesOf(F.num, bytes),
         LAMBDA of_field :
           Eager([j \in 1..Len(of_field) |-> ValueOf(of_field[j], bytes, F.type.of)]))

(* C23: an entry that is parsed for a key that a std::map holds, from a    *)
(* merge before or from the same bytes, is dropped: every entry the map    *)
(* held is still in it, no key is in it twice, and after a merge that      *)
(* succeeds the map holds the keys it held and those of the bytes, each    *)
(* new one with the value of its first entry in the bytes.                 *)
MapKeepsFirstOccurrence ==
    ReadIntoMessage
    => \A i \in 1..Len(FieldsOf(target)) :
         (FieldsOf(target)[i].type.k = "vector" /\ FieldsOf(target)[i].type.unique)
         => /\ \A j \in 1..Len(Prior[i]) :
                 \E n \in 1..Len(message[i]) : message[i][n] = Prior[i][j]
            /\ \A a, b \in 1..Len(message[i]) :
                 a # b => message[i][a][1] # message[i][b][1]
            /\ ok => With(EntriesOf(buffer, FieldsOf(target)[i]),
                          LAMBDA entries :
                            /\ KeysOf(message[i]) = KeysOf(Prior[i]) \cup KeysOf(entries)
                            /\ \A n \in 1..Len(message[i]) :
                                 (message[i][n][1] \notin KeysOf(Prior[i]))
                                 => message[i][n]
                                      = entries[CHOOSE j \in 1..Len(entries) :
                                                  /\ entries[j][1] = message[i][n][1]
                                                  /\ \A e \in 1..(j - 1) :
                                                       entries[e][1] # message[i][n][1]])

(* The entries 1 -> 2, 1 -> 3 and 2 -> 3 have been merged into the map     *)
(* that a parse of them left: it holds 1 -> 2 and 2 -> 3, as before.       *)
MapKeepsFirstOccurrenceWitness ==
    /\ op = "merge of wire_bytes"
    /\ target = TMessage("Maps")
    /\ ok
    /\ Len(source) = 3
    /\ source[1].value = << 4, 8, 1, 16, 2 >>
    /\ source[2].value = << 4, 8, 1, 16, 3 >>
    /\ source[3].value = << 4, 8, 2, 16, 3 >>
    /\ before[1] = << << NatBits(1, 32), NatBits(2, 32) >>,
                      << NatBits(2, 32), NatBits(3, 32) >> >>
    /\ message = before

(* The first of two sequences is the beginning of the second. *)
IsPrefix(held, all) == Len(held) <= Len(all) /\ SubSeq(all, 1, Len(held)) = held

(* C24: a merge, one that fails part-way too, writes no byte of the buffer *)
(* and leaves the elements that a sequence container held where they were: *)
(* what the container held is the beginning of what it holds after.        *)
MergeKeepsPriorElements ==
    [][(op' = "merge of wire_bytes")
       => /\ buffer' = buffer
          /\ \A i \in 1..Len(FieldsOf(target)) :
               (FieldsOf(target)[i].type.k = "vector" /\ ~FieldsOf(target)[i].type.unique)
               => IsPrefix(before'[i], message'[i])]_vars

(* A merge has failed in the element of a container of Things that held    *)
(* one element: the container holds that one and one more.                 *)
MergeKeepsPriorElementsWitness ==
    /\ op = "merge of wire_bytes"
    /\ ~ok
    /\ target = TMessage("Repeats")
    /\ before = Sample(target, 1)
    /\ Len(before[4]) = 1
    /\ Len(message[4]) = 2
    /\ SubSeq(message[4], 1, 1) = before[4]
    /\ message[1] = before[1]

----------------------------------------------------------------------------
(* The presence of fields and of elements in what pb::Serialize writes,    *)
(* checked under Spec.                                                     *)

(* The writer has serialized its record into the buffer. *)
Serialized == op = "serialize"

(* An optional holding nullopt, a null unique_ptr, a null string_view. *)
StoresNoValue(T, v) == ElementStoresOneValueOrNone(T) /\ v = << >>

(* The data members the presence rule excepts: those that store no value,  *)
(* and the empty containers.                                               *)
Excepted(T, v) ==
    IF IsRepeatedField(T) THEN Len(v) = 0 ELSE StoresNoValue(T, v)

(* The data members with no value to write: those that store no value, and *)
(* the containers none of whose elements stores one (the empty ones too).  *)
HoldsNoValue(T, v) ==
    IF IsRepeatedField(T) THEN \A j \in 1..Len(v) : StoresNoValue(T.of, v[j])
    ELSE StoresNoValue(T, v)

(* The place in |fields| of the field numbered |number|. *)
DeclaredAt(fields, number) ==
    CHOOSE i \in 1..Len(fields) : fields[i].num = number

(* Whether |bytes|, the encoding of |v| of the record type T, holds the    *)
(* fields the presence rule asks for: tags of declared fields only, in     *)
(* declaration order, one or more of a field exactly when the data member  *)
(* is not an excepted one (|as_stated|) or holds a value (otherwise), one  *)
(* at most of a field that is not a container of unpacked elements, a      *)
(* length of 0 for a non-null std::string_view of no bytes; and so in the  *)
(* record of each field that holds one.                                    *)
RECURSIVE PresenceRuleIn(_, _, _, _)
PresenceRuleIn(bytes, T, v, as_stated) ==
    With(Occurrences(bytes, 0),
         LAMBDA occurrences :
           LET fields == FieldsOf(T)
               Of(i) == SelectSeq(occurrences, LAMBDA o : o.number = fields[i].num)
           IN  /\ TagsFill(bytes)
               /\ \A j \in 1..Len(occurrences) :
                    \E i \in 1..Len(fields) : fields[i].num = occurrences[j].number
               /\ \A j \in 1..(Len(occurrences) - 1) :
                    DeclaredAt(fields, occurrences[j].number)
                      <= DeclaredAt(fields, occurrences[j + 1].number)
               /\ \A i \in 1..Len(fields) :
                    /\ (Of(i) # << >>)
                         <=> ~(IF as_stated THEN Excepted(fields[i].type, v[i])
                               ELSE HoldsNoValue(fields[i].type, v[i]))
                    /\ (~IsRepeatedField(fields[i].type)
                          \/ CanEncodeAsAPackedRepeatedField(fields[i].type))
                       => Len(Of(i)) <= 1
                    /\ (fields[i].type.k = "string_view" /\ v[i] = << << >> >>)
                       => /\ Len(Of(i)) = 1
                          /\ SubSeq(bytes, Of(i)[1].value + 1, Of(i)[1].next) = << 0 >>
                    /\ (/\ ~IsRepeatedField(fields[i].type)
                        /\ Inner(fields[i].type).k \in {"message", "pair"}
                        /\ Len(Of(i)) = 1)
                       => PresenceRuleIn(PayloadOfOccurrence(Of(i)[1], bytes),
                                         Inner(fields[i].type),
                                         GetTheOneValue(fields[i].type, v[i]),
                                         as_stated))

(* C14 as stated: pb::Serialize writes every declared field, in            *)
(* declaration order, except a std::optional holding nullopt, a null       *)
(* std::unique_ptr, a null std::string_view and an empty container; a      *)
(* scalar, a string and a nested record are written even when zero or      *)
(* empty, and a non-null std::string_view of no bytes with a length of 0.  *)
PresenceRule == Serialized => PresenceRuleIn(buffer, type, source, TRUE)

(* C14: pb::Serialize writes every declared field, in declaration order,   *)
(* except a std::optional holding nullopt, a null std::unique_ptr, a null  *)
(* std::string_view, and a container that is empty or none of whose        *)
(* elements stores a value; a scalar, a string and a nested record are     *)
(* written even when zero or empty, and a non-null std::string_view of no  *)
(* bytes with a length of 0.                                               *)
PresenceRuleOfStoredValues ==
    Serialized => PresenceRuleIn(buffer, type, source, FALSE)

(* A value-initialized record of five fields is written as its first field *)
(* alone, an empty nested record whose zero is written: the optionals, the *)
(* null unique_ptr and the null string_view are not.                       *)
PresenceRuleOfStoredValuesWitness ==
    /\ Serialized
    /\ type = TMessage("Records")
    /\ source = DefaultValue(type)
    /\ source[5] = << >>
    /\ buffer = << 10, 2, 16, 0 >>

(* The number of elements of |container| that store a value. *)
CountOfStored(ET, container) ==
    Cardinality({j \in 1..Len(container) : ~StoresNoValue(ET, container[j])})

(* The number of elements of the field fields[i] written in |bytes|, and   *)
(* whether they are those of |container|: the elements of the payload of a *)
(* packed field, the tag/value pairs of an unpacked one.                   *)
ElementsWritten(bytes, F) ==
    With(SelectSeq(Occurrences(bytes, 0), LAMBDA o : o.number = F.num),
         LAMBDA of_field :
           IF CanEncodeAsAPackedRepeatedField(F.type)
           THEN IF of_field = << >> THEN 0
                ELSE Len(ElementsIn(PayloadOfOccurrence(of_field[1], bytes), F.type.of))
           ELSE Len(of_field))

(* C15 as stated: the number of elements written of every container field  *)
(* is the container's size, whatever the element type.                     *)
ElementsAlwaysEmitted ==
    Serialized
    => \A i \in 1..Len(FieldsOf(type)) :
         IsRepeatedField(FieldsOf(type)[i].type)
         => ElementsWritten(buffer, FieldsOf(type)[i]) = Len(source[i])

(* C15: the number of elements written of every container field is the     *)
(* number of the container's elements that store a value: the container's  *)
(* size, but for the elements that are a std::optional holding nullopt, a  *)
(* null std::unique_ptr or a null std::string_view, which are not written. *)
StoredElementsEmitted ==
    Serialized
    => \A i \in 1..Len(FieldsOf(type)) :
         IsRepeatedField(FieldsOf(type)[i].type)
         => /\ ElementsWritten(buffer, FieldsOf(type)[i])
                 = CountOfStored(FieldsOf(type)[i].type.of, source[i])
            /\ CanEncodeAsAPackedRepeatedField(FieldsOf(type)[i].type)
               => ElementsWritten(buffer, FieldsOf(type)[i]) = Len(source[i])

(* A record with three containers of three elements, one of them reset,    *)
(* is written with two, one and three elements.                            *)
StoredElementsEmittedWitness ==
    /\ Serialized
    /\ type = TMessage("Elements")
    /\ Len(source[1]) = 3 /\ Len(source[2]) = 3 /\ Len(source[3]) = 3
    /\ source[2][1] = << >>
    /\ ElementsWritten(buffer, FieldsOf(type)[1]) = 2
    /\ ElementsWritten(buffer, FieldsOf(type)[2]) = 1
    /\ ElementsWritten(buffer, FieldsOf(type)[3]) = 3

(* The container field |F| is written in |bytes| as one tag with one       *)
(* length and the payloads of its elements after it.                       *)
WrittenPacked(bytes, F) ==
    With(OccurrencesOf(F.num, bytes),
         LAMBDA of_field :
           Len(of_field) = 1 /\ of_field[1].wire_type = kLengthDelimited)

(* The wire type of the elements is varint, 32-bit or 64-bit. *)
ElementWireTypeIsScalar(T) ==
    GetWireType(T.of) \in {kVarint, kFixed32Bit, kFixed64Bit}

(* C30 as stated: a container of two or more stored elements is written    *)
(* packed when, and only when, the wire type of its elements is varint,    *)
(* 32-bit or 64-bit.                                                       *)
PackedByElementWireType ==
    Serialized
    => \A i \in 1..Len(FieldsOf(type)) :
         (IsRepeatedField(FieldsOf(type)[i].type)
          /\ CountOfStored(FieldsOf(type)[i].type.of, source[i]) >= 2)
         => (WrittenPacked(buffer, FieldsOf(type)[i])
             <=> ElementWireTypeIsScalar(FieldsOf(type)[i].type))

(* C30: a container of two or more stored elements is written packed when, *)
(* and only when, its elements are themselves integers, bools, enums or    *)
(* fixed-width numbers; the containers of strings, of nested records and   *)
(* of pairs are not, and neither are those of a std::optional or a         *)
(* std::unique_ptr of a number, whose wire type is the number's.           *)
PackedByElementType ==
    Serialized
    => \A i \in 1..Len(FieldsOf(type)) :
         (IsRepeatedField(FieldsOf(type)[i].type)
          /\ CountOfStored(FieldsOf(type)[i].type.of, source[i]) >= 2)
         => (WrittenPacked(buffer, FieldsOf(type)[i])
             <=> /\ ElementWireTypeIsScalar(FieldsOf(type)[i].type)
                 /\ FieldsOf(type)[i].type.of.k \notin {"optional", "unique_ptr"})

(* A container of std::optional<int32_t>, two of the three holding a       *)
(* value, is written as two varint fields; the wire type of its elements   *)
(* is varint.                                                              *)
PackedByElementTypeWitness ==
    /\ Serialized
    /\ type = TMessage("Elements")
    /\ Len(source[1]) = 3
    /\ ElementWireTypeIsScalar(FieldsOf(type)[1].type)
    /\ Len(OccurrencesOf(1, buffer)) = 2
    /\ OccurrencesOf(1, buffer)[1].wire_type = kVarint
    /\ ~WrittenPacked(buffer, FieldsOf(type)[1])

----------------------------------------------------------------------------
(* The search for the field of a tag: ParseValueAfterTag<Message> is       *)
(* called with the wire type and the field number of a tag and the bytes   *)
(* after it, on a value-initialized Message.                               *)

(* The Messages searched: of no field, of one, two, three, five and eight. *)
DispatchedTypes ==
    {"EmptyMessage", "Thing", "Sparse", "Elements", "Records", "Scalars"}

(* The field numbers of the tags: 0, those the Messages declare and those  *)
(* below, between and above them, the first of the reserved numbers, and   *)
(* the greatest that a tag holds.                                          *)
DispatchNumbers == {0, 1, 2, 3, 4, 5, 6, 7, 8, 9, 19000, 536870911}

InitDispatch ==
    /\ op = "init"
    /\ \E name \in DispatchedTypes :
          /\ AreFieldNumbersMonotonicallyIncreasing(ProtobufFields(name), 1)
          /\ target = TMessage(name)
          /\ type = TMessage(name)
          /\ message = DefaultValue(TMessage(name))
          /\ before = DefaultValue(TMessage(name))
    /\ source = << >>
    /\ size = NotComputed
    /\ fields_size = NotComputed
    /\ buffer = << >>
    /\ merges = 0
    /\ buffer_end = 0
    /\ ok = TRUE
    /\ end = 0
    /\ frames = << >>
    /\ cursor = 0
    /\ declared = 0
    /\ undeclared = 0

(* ParseValueAfterTag<Message>(buffer, buffer_end, 0, wire_type,           *)
(* field_number, message): |cursor| and |declared| keep the field number   *)
(* and the wire type, |end| what it returns.                               *)
CallParseValueAfterTag ==
    /\ op = "init"
    /\ \E field_number \in DispatchNumbers : \E wire_type \in 0..7 :
          \E value \in WireValues(wire_type) :
            /\ buffer' = value
            /\ cursor' = field_number
            /\ declared' = wire_type
            /\ \E r \in {ParseValueAfterTag(value, 0, Len(value), 0, wire_type,
                                             field_number, FieldsOf(target), message,
                                             0, Len(FieldsOf(target)))} :
                  /\ end' = r.p
                  /\ ok' = ~Failed(r.p)
                  /\ message' = r.v
            /\ buffer_end' = Len(value)
    /\ op' = "ParseValueAfterTag"
    /\ UNCHANGED << type, target, source, size, fields_size, before, merges, frames,
                    undeclared >>

SpecDispatch == InitDispatch /\ [][CallParseValueAfterTag]_vars

(* The indices of the fields of |fields| whose number is |field_number|. *)
IndicesOf(fields, field_number) ==
    {i \in 1..Len(fields) : fields[i].num = field_number}

(* What a search of the fields one after the other does with the value:    *)
(* the first field with the number parses it, and it is skipped when no    *)
(* field has the number.                                                   *)
LinearSearch(bytes, wire_type, field_number, fields, old) ==
    IF IndicesOf(fields, field_number) = {}
    THEN [p |-> SkipValueAfterTag(bytes, 0, Len(bytes), 0, wire_type), v |-> old]
    ELSE With(CHOOSE i \in IndicesOf(fields, field_number) :
                \A j \in IndicesOf(fields, field_number) : i <= j,
              LAMBDA i :
                With(ParseValueAfterTagForField(bytes, 0, Len(bytes), 0, wire_type,
                                                fields[i].type, old[i]),
                     LAMBDA r : [p |-> r.p, v |-> [old EXCEPT ![i] = r.v]]))

(* C22: for every field number of a tag, 0, the reserved ones and those    *)
(* below, between and above the declared ones too, the binary search of a  *)
(* list of strictly increasing field numbers does what a search of the     *)
(* fields one after the other does: the declared field with that number    *)
(* parses the value, and the value is skipped when there is none.          *)
BinarySearchIsLinearSearch ==
    (op = "ParseValueAfterTag")
    => /\ [p |-> end, v |-> message]
            = LinearSearch(buffer, declared, cursor, FieldsOf(target), before)
       /\ IndicesOf(FieldsOf(target), cursor) = {}
          => /\ message = before
             /\ end = SkipValueAfterTag(buffer, 0, Len(buffer), 0, declared)

(* The tag of field 7 of a Message of eight fields, found after the pivots *)
(* 5 and 7: its 32-bit value is stored and the fields beside it are left.  *)
BinarySearchIsLinearSearchWitness ==
    /\ op = "ParseValueAfterTag"
    /\ target = TMessage("Scalars")
    /\ cursor = 7
    /\ declared = kFixed32Bit
    /\ end = 4
    /\ message[7] = NatBits(1, 32)
    /\ \A i \in (1..8) \ {7} : message[i] = before[i]

----------------------------------------------------------------------------
(* InspectionTest: a buffer is filled with a serialized Message or with    *)
(* none, and with runs of other bytes after it; then it is scanned.        *)

(* The greatest number of runs of bytes a buffer is filled with. *)
MaxFills == 4

(* The runs: a byte that is no tag (field number 0), the tags of field 1   *)
(* as a varint, a length-delimited and a 32-bit field, which are also the  *)
(* lengths and values 8, 10 and 13, the length 2, five continuation bytes  *)
(* (a tag or a length too long with one more byte, a varint value too      *)
(* long with six more), and the tag of the reserved field number 19000.    *)
Fills ==
    { << 0 >>, << 8 >>, << 10 >>, << 13 >>, << 2 >>,
      << 136, 128, 128, 128, 128 >>, << 192, 163, 9 >> }

(* The depths of the payloads scanned apart from a whole buffer. *)
DeepLevels == {kMaxMessageNestingDepth - 1, kMaxMessageNestingDepth}

(* The Messages of the tests, by the names of their types here. *)
InspectedTypes == {"EmptyMessage", "Scalars", "Records", "Repeats"}

InitInspect ==
    /\ op = "init"
    /\ type = TMessage("EmptyMessage")
    /\ target = TMessage("EmptyMessage")
    /\ source = << >>
    /\ size = NotComputed
    /\ fields_size = NotComputed
    /\ buffer = << >>
    /\ message = << >>
    /\ before = << >>
    /\ merges = 0
    /\ buffer_end = 0
    /\ ok = TRUE
    /\ end = 0
    /\ frames = << >>
    /\ cursor = 0
    /\ declared = 0
    /\ undeclared = 0

(* Serialize(kTestMessage1, buffer.data()) into a buffer of the size       *)
(* computed.                                                               *)
SerializeOneMessage ==
    /\ op = "init"
    /\ \E name \in InspectedTypes : \E k \in 0..MaxSample :
          /\ type' = TMessage(name)
          /\ source' = Sample(TMessage(name), k)
          /\ size' = ComputeSerializedSize(TMessage(name), Sample(TMessage(name), k))
          /\ buffer' = Serialize(TMessage(name), Sample(TMessage(name), k))
    /\ declared' = 1
    /\ op' = "pb::Serialize"
    /\ UNCHANGED << target, fields_size, message, before, merges, buffer_end, ok, end,
                    frames, cursor, undeclared >>

(* std::fill of the bytes after those written so far: any number of runs  *)
(* in a buffer with no Message, one run after a Message.                   *)
Fill(bytes) ==
    /\ op \in {"init", "pb::Serialize", "std::fill"}
    /\ undeclared < MaxFills
    /\ declared = 1 => op = "pb::Serialize"
    /\ buffer' = buffer \o bytes
    /\ undeclared' = undeclared + 1
    /\ op' = "std::fill"
    /\ UNCHANGED << type, target, source, size, fields_size, message, before, merges,
                    buffer_end, ok, end, frames, cursor, declared >>

(* spans = ScanForMessageFields(buffer.data(), buffer.data() +             *)
(* buffer.size(), permissive)                                              *)
CallScanForMessageFields(permissive) ==
    /\ op \in {"init", "pb::Serialize", "std::fill"}
    /\ message' = ScanForMessageFields(buffer, 0, Len(buffer), permissive)
    /\ before' = permissive
    /\ buffer_end' = Len(buffer)
    /\ op' = "ScanForMessageFields"
    /\ UNCHANGED << type, target, source, size, fields_size, buffer, merges, ok, end,
                    frames, cursor, declared, undeclared >>

(* parsed = ParseProbableMessage(buffer.data(), buffer.data() +            *)
(* buffer.size()); |ok| is whether it is not null.                         *)
CallParseProbableMessage ==
    /\ op \in {"init", "pb::Serialize", "std::fill"}
    /\ \E parsed \in {ParseProbableMessage(buffer, 0, Len(buffer))} :
          /\ ok' = (parsed # << >>)
          /\ message' = parsed
    /\ buffer_end' = Len(buffer)
    /\ op' = "ParseProbableMessage"
    /\ UNCHANGED << type, target, source, size, fields_size, buffer, before, merges, end,
                    frames, cursor, declared, undeclared >>

(* The scan of a payload that is |nesting_level| messages deep, at the     *)
(* limit of the nesting and one short of it.                               *)
CallScanForMessageFieldsRecursively(nesting_level, permissive) ==
    /\ op \in {"init", "pb::Serialize", "std::fill"}
    /\ message' = ScanForMessageFieldsRecursively(buffer, 0, Len(buffer), nesting_level,
                                                   permissive)
    /\ before' = permissive
    /\ cursor' = nesting_level
    /\ buffer_end' = Len(buffer)
    /\ op' = "ScanForMessageFieldsRecursively"
    /\ UNCHANGED << type, target, source, size, fields_size, buffer, merges, ok, end,
                    frames, declared, undeclared >>

(* ComputeRowIndexOffset(some_byte_in_the_row) of the rendering |context|: *)
(* |offset| is the offset of the first byte of the row that holds the byte *)
(* at |p|, the quotient rounded toward zero as the division of C++ rounds  *)
(* it; |asserted| is whether assert(byte_offset >= 0) holds (a build that  *)
(* keeps its assertions aborts when it does not).                          *)
ComputeRowIndexOffset(context, p) ==
    [offset   |-> IF p - context.offset_zero >= 0
                  THEN ((p - context.offset_zero) \div context.bytes_per_line)
                       * context.bytes_per_line
                  ELSE 0 - (((context.offset_zero - p) \div context.bytes_per_line)
                            * context.bytes_per_line),
     asserted |-> p - context.offset_zero >= 0]

(* MakeHexDumpRow(row_offset, begin, end): a line as a record.  |address|  *)
(* is the hexadecimal digits of the row offset, eight of them for an       *)
(* offset that is not negative and the sixteen of the 64-bit two's         *)
(* complement for one that is; |hex| has a slot for each byte of the row,  *)
(* the two hexadecimal digits of a byte in [begin, end) and no digit       *)
(* (spaces) for another; |text| is what MakeInspection puts last on the    *)
(* line; |asserted| is whether the assertions held.                        *)
MakeHexDumpRow(bytes, context, row_offset, begin, last) ==
    [address  |-> IF row_offset >= 0
                  THEN [i \in 1..8 |-> (row_offset \div (16 ^ (8 - i))) % 16]
                  ELSE [i \in 1..16 |->
                          IF 16 - i >= 8 THEN 15
                          ELSE 15 - (((0 - row_offset - 1) \div (16 ^ (16 - i))) % 16)],
     hex      |-> [i \in 1..context.bytes_per_line |->
                     With(context.offset_zero + row_offset + (i - 1),
                          LAMBDA p : IF p >= begin /\ p < last
                                     THEN << bytes[p + 1] \div 16, bytes[p + 1] % 16 >>
                                     ELSE << >>)],
     text     |-> "",
     asserted |-> row_offset >= 0 /\ begin <= last]

(* Rows to the end of the span, whatever the limit. *)
MakeHexDumpRowsToTheEnd(bytes, context, begin, last) ==
    IF begin < context.offset_zero \/ context.offset_zero > last \/ context.limit <= begin
    THEN [lines |-> << >>, asserted |-> begin <= last, thrown |-> FALSE]
    ELSE LET row_offset == ComputeRowIndexOffset(context, begin)
             end_row == ComputeRowIndexOffset(context, last - 1)
             end_row_offset == end_row.offset + context.bytes_per_line
         IN  IF end_row_offset < row_offset.offset
             THEN [lines |-> << >>, asserted |-> FALSE, thrown |-> TRUE]
             ELSE With([k \in 1..((end_row_offset - row_offset.offset)
                                   \div context.bytes_per_line) |->
                          MakeHexDumpRow(bytes, context,
                                         row_offset.offset
                                           + (k - 1) * context.bytes_per_line,
                                         begin, last)],
                       LAMBDA lines :
                         [lines    |-> lines,
                          asserted |-> /\ begin <= last
                                       /\ row_offset.asserted
                                       /\ end_row.asserted
                                       /\ \A k \in 1..Len(lines) : lines[k].asserted,
                          thrown   |-> FALSE])

(* MakeHexDumpRows(begin, end): no line for a span that begins at the      *)
(* limit or after it; otherwise the rows from that of |begin| to that of   *)
(* the byte before std::min(end, limit).  |lines| is what the function     *)
(* returns when no assertion stops it, |asserted| whether its assertions   *)
(* and those of the functions it calls hold, and |thrown| whether          *)
(* lines.reserve throws std::length_error: the row to end at lies before   *)
(* the row to begin at, the count of rows is negative, and no build        *)
(* returns.                                                                *)
MakeHexDumpRows(bytes, context, begin, last) ==
    IF begin < context.offset_zero \/ context.offset_zero > last \/ context.limit <= begin
    THEN [lines |-> << >>, asserted |-> begin <= last, thrown |-> FALSE]
    ELSE LET row_offset == ComputeRowIndexOffset(context, begin)
             end_row == ComputeRowIndexOffset(context, Min(last, context.limit) - 1)
             end_row_offset == end_row.offset + context.bytes_per_line
         IN  IF end_row_offset < row_offset.offset
             THEN [lines |-> << >>, asserted |-> FALSE, thrown |-> TRUE]
             ELSE With([k \in 1..((end_row_offset - row_offset.offset)
                                   \div context.bytes_per_line) |->
                          MakeHexDumpRow(bytes, context,
                                         row_offset.offset
                                           + (k - 1) * context.bytes_per_line,
                                         begin, last)],
                       LAMBDA lines :
                         [lines    |-> lines,
                          asserted |-> /\ begin <= last
                                       /\ row_offset.asserted
                                       /\ end_row.asserted
                                       /\ \A k \in 1..Len(lines) : lines[k].asserted,
                          thrown   |-> FALSE])

(* MakeInspection(context) of a span, as the record of MakeHexDumpRows.    *)
(* The lines of VarintSpan, Fixed64 and Fixed32 are the rows of            *)
(* MakeHexDumpRows; so are those of a WireSpan, which also computes the    *)
(* row of its begin; the last line of a BytesSpan that has a line ends     *)
(* with the ellipsis when the span ends after the limit and in another row *)
(* than the limit; a MessageSpan has a row for its tag and length up to    *)
(* the limit, the lines of its fields up to the first that begins at the   *)
(* limit or after it, and a closing row of no byte, with the ellipsis when *)
(* a field was left out.  The interpretations written before |text| are    *)
(* not kept, and "..." is the one character U+2026.                        *)
RECURSIVE MakeInspection(_, _, _)
MakeInspection(bytes, context, span) ==
    CASE span.kind = "WireSpan" ->
           With(MakeHexDumpRows(bytes, context, span.begin, span.end),
                LAMBDA rows :
                  IF rows.thrown THEN rows
                  ELSE [rows EXCEPT !.asserted =
                          @ /\ ComputeRowIndexOffset(context, span.begin).asserted])
      [] span.kind = "BytesSpan" ->
           With(MakeHexDumpRows(bytes, context, span.begin, span.end),
                LAMBDA rows :
                  IF rows.thrown \/ rows.lines = << >> THEN rows
                  ELSE [lines    |-> IF /\ span.end > context.limit
                                        /\ ComputeRowIndexOffset(context, span.end).offset
                                             # ComputeRowIndexOffset(context,
                                                                     context.limit).offset
                                     THEN [rows.lines EXCEPT ![Len(rows.lines)].text = "..."]
                                     ELSE rows.lines,
                        asserted |-> /\ rows.asserted
                                     /\ ComputeRowIndexOffset(context, span.begin).asserted
                                     /\ span.end > context.limit
                                          => /\ ComputeRowIndexOffset(context,
                                                                      span.end).asserted
                                             /\ ComputeRowIndexOffset(context,
                                                                      context.limit).asserted,
                        thrown   |-> FALSE])
      [] span.kind = "MessageSpan" ->
           LET fields_ == span.value
               length_varint_end == IF fields_ = << >> THEN span.end ELSE fields_[1].begin
               left_out == {i \in 1..Len(fields_) : fields_[i].begin >= context.limit}
               shown == IF left_out = {} THEN Len(fields_)
                        ELSE (CHOOSE i \in left_out : \A j \in left_out : i <= j) - 1
               first_row == MakeHexDumpRow(
                                bytes, context,
                                ComputeRowIndexOffset(context, span.begin).offset,
                                span.begin, Min(length_varint_end, context.limit))
               last_row == MakeHexDumpRow(
                               bytes, context,
                               ComputeRowIndexOffset(context, span.end).offset,
                               span.end, span.end)
               RECURSIVE LinesOfFields(_)
               LinesOfFields(i) ==
                   IF i > shown THEN [lines |-> << >>, asserted |-> TRUE, thrown |-> FALSE]
                   ELSE With(MakeInspection(bytes, context, fields_[i]),
                             LAMBDA field :
                               IF field.thrown THEN field
                               ELSE With(LinesOfFields(i + 1),
                                         LAMBDA rest :
                                           IF rest.thrown THEN rest
                                           ELSE [lines    |-> field.lines \o rest.lines,
                                                 asserted |-> field.asserted /\ rest.asserted,
                                                 thrown   |-> FALSE]))
           IN  With(LinesOfFields(1),
                    LAMBDA of_fields :
                      IF of_fields.thrown
                      THEN [lines |-> << >>, asserted |-> FALSE, thrown |-> TRUE]
                      ELSE [lines    |-> << first_row >>
                                         \o of_fields.lines
                                         \o << [last_row EXCEPT !.text =
                                                  IF left_out # {} THEN "...}" ELSE "}"] >>,
                            asserted |-> /\ ComputeRowIndexOffset(context,
                                                                  span.begin).asserted
                                         /\ first_row.asserted
                                         /\ of_fields.asserted
                                         /\ ComputeRowIndexOffset(context, span.end).asserted
                                         /\ last_row.asserted,
                            thrown   |-> FALSE])
      [] OTHER -> MakeHexDumpRows(bytes, context, span.begin, span.end)

(* InspectionRenderingContext::Print(spans, utf8_out): |lines| is the      *)
(* lines written, those of each span in turn up to a span whose            *)
(* MakeInspection throws.                                                  *)
RECURSIVE PrintLines(_, _, _)
PrintLines(bytes, context, spans) ==
    IF spans = << >> THEN [lines |-> << >>, asserted |-> TRUE, thrown |-> FALSE]
    ELSE With(MakeInspection(bytes, context, Head(spans)),
              LAMBDA first :
                IF first.thrown THEN first
                ELSE With(PrintLines(bytes, context, Tail(spans)),
                          LAMBDA rest :
                            [lines    |-> first.lines \o rest.lines,
                             asserted |-> first.asserted /\ rest.asserted,
                             thrown   |-> rest.thrown]))

(* The max_bytes and bytes_per_line of the rendering contexts: a limit of  *)
(* one byte, one inside the second row, one at the end of it and the 2048  *)
(* that is the default of the tests, with rows of four bytes; the limit of *)
(* 30 bytes with rows of 16 of OneMessageWithInspectionLimit.              *)
RenderingContexts == { << 1, 4 >>, << 6, 4 >>, << 8, 4 >>, << 2048, 4 >>, << 30, 16 >> }

(* InspectionRenderingContext(offset_zero, max_bytes, bytes_per_line)      *)
(* .Print(spans, oss) for the spans of a permissive scan, offset_zero      *)
(* being spans[0]->begin(), or nullptr for no span.  |frames| holds the    *)
(* lines written, |end| and |cursor| max_bytes and bytes_per_line.  A      *)
(* build that keeps its assertions aborts at one that does not hold, and   *)
(* every build ends at an exception thrown; |frames| is empty then.        *)
CallPrint(max_bytes, bytes_per_line) ==
    /\ op = "ScanForMessageFields"
    /\ before = TRUE
    /\ \E printed \in {PrintLines(
                         buffer,
                         [offset_zero    |-> IF message = << >> THEN 0 ELSE message[1].begin,
                          limit          |-> (IF message = << >> THEN 0 ELSE message[1].begin)
                                             + max_bytes,
                          bytes_per_line |-> bytes_per_line],
                         message)} :
          \E NDEBUG \in BOOLEAN :
             IF ~printed.thrown /\ (NDEBUG \/ printed.asserted)
             THEN frames' = printed.lines /\ op' = "Print"
             ELSE frames' = << >> /\ op' = "abort"
    /\ end' = max_bytes
    /\ cursor' = bytes_per_line
    /\ UNCHANGED << type, target, source, size, fields_size, buffer, message, before,
                    merges, buffer_end, ok, declared, undeclared >>

NextInspect ==
    \/ SerializeOneMessage
    \/ \E bytes \in Fills : Fill(bytes)
    \/ \E permissive \in BOOLEAN : CallScanForMessageFields(permissive)
    \/ CallParseProbableMessage
    \/ \E nesting_level \in DeepLevels : \E permissive \in BOOLEAN :
          CallScanForMessageFieldsRecursively(nesting_level, permissive)
    \/ \E context \in RenderingContexts : CallPrint(context[1], context[2])

SpecInspect == InitInspect /\ [][NextInspect]_vars

----------------------------------------------------------------------------
(* The inspector, checked under SpecInspect *)

(* The scan of the whole buffer has returned |message|. *)
Scanned(permissive) == op = "ScanForMessageFields" /\ before = permissive

(* The spans are not empty, each begins where the one before it ends, the  *)
(* first at |first| and the last ending at |last|.                        *)
Partition(spans, first, last) ==
    /\ \A j \in 1..Len(spans) : spans[j].begin < spans[j].end
    /\ \A j \in 1..(Len(spans) - 1) : spans[j].end = spans[j + 1].begin
    /\ IF spans = << >> THEN first = last
       ELSE spans[1].begin = first /\ spans[Len(spans)].end = last

(* C18: the permissive scan of any bytes, of none too, returns spans in    *)
(* ascending order, none empty, no two overlapping, and every byte of the  *)
(* input in one of them.                                                   *)
PermissivePartition ==
    Scanned(TRUE)
    => /\ Partition(message, 0, Len(buffer))
       /\ \A i \in 0..(Len(buffer) - 1) :
            Cardinality({j \in 1..Len(message) :
                           message[j].begin <= i /\ i < message[j].end}) = 1

(* Bytes that are no field, a field, and bytes that are no field again,    *)
(* the tag of a varint with no value among them: three spans.              *)
PermissivePartitionWitness ==
    /\ Scanned(TRUE)
    /\ buffer = << 0, 8, 2, 8 >>
    /\ Len(message) = 3
    /\ message[1] = WireSpan(0, 1)
    /\ message[2].kind = "VarintSpan"
    /\ message[3] = WireSpan(3, 4)

(* C19: the strict scan returns every byte or none: a list that is not     *)
(* empty holds fields alone, the first at the begin of the input, each     *)
(* where the one before it ends, the last to the end of the input; it is   *)
(* the list of the permissive scan when that one holds fields alone, and   *)
(* empty when that one holds bytes that are no field, whatever fields came *)
(* before them.                                                            *)
StrictCompleteness ==
    Scanned(FALSE)
    => /\ message # << >>
          => /\ Partition(message, 0, Len(buffer))
             /\ \A j \in 1..Len(message) : message[j].kind # "WireSpan"
       /\ With(ScanForMessageFields(buffer, 0, Len(buffer), TRUE),
               LAMBDA spans :
                 IF \E j \in 1..Len(spans) : spans[j].kind = "WireSpan"
                 THEN message = << >>
                 ELSE message = spans)

(* A field, then a tag with no value: the strict scan has returned no span *)
(* where the permissive one returns two.                                   *)
StrictCompletenessWitness ==
    /\ Scanned(FALSE)
    /\ buffer = << 8, 2, 8 >>
    /\ message = << >>
    /\ Len(ScanForMessageFields(buffer, 0, Len(buffer), TRUE)) = 2

(* The field numbers of the tag/value pairs pb::Serialize writes for the   *)
(* fields of |v| from the i-th on: one for a field that stores a value,    *)
(* one for a packed container that is not empty, one for each element of   *)
(* another container that stores a value.                                  *)
RECURSIVE EmittedNumbers(_, _, _)
EmittedNumbers(fields, v, i) ==
    IF i > Len(fields) THEN << >>
    ELSE (IF CanEncodeAsAPackedRepeatedField(fields[i].type)
          THEN (IF Len(v[i]) = 0 THEN << >> ELSE << fields[i].num >>)
          ELSE IF IsRepeatedField(fields[i].type)
          THEN Eager([j \in 1..CountOfStored(fields[i].type.of, v[i]) |-> fields[i].num])
          ELSE IF StoresNoValue(fields[i].type, v[i]) THEN << >>
          ELSE << fields[i].num >>)
         \o EmittedNumbers(fields, v, i + 1)

(* The buffer holds what pb::Serialize wrote, and no other byte. *)
HoldsOneMessage == declared = 1 /\ undeclared = 0

(* C20: ParseProbableMessage of the bytes pb::Serialize wrote, of no byte  *)
(* too, returns a MessageSpan of the whole buffer whose fields are one     *)
(* span for each tag/value pair written, in the order written and with the *)
(* field numbers written, each where the one before it ends.               *)
SerializedIsProbableMessage ==
    (op = "ParseProbableMessage" /\ HoldsOneMessage)
    => /\ ok
       /\ size = Len(buffer)
       /\ message[1].kind = "MessageSpan"
       /\ message[1].begin = 0
       /\ message[1].end = Len(buffer)
       /\ Partition(message[1].value, 0, Len(buffer))
       /\ Eager([j \in 1..Len(message[1].value) |-> message[1].value[j].field_number])
            = EmittedNumbers(FieldsOf(type), source, 1)
       /\ \A j \in 1..Len(message[1].value) : message[1].value[j].kind # "WireSpan"

(* A Message of eight scalar fields has been serialized and found, with    *)
(* its eight fields; as has one of no fields, in no bytes.                 *)
SerializedIsProbableMessageWitness ==
    /\ op = "ParseProbableMessage"
    /\ HoldsOneMessage
    /\ type = TMessage("Scalars")
    /\ source = Sample(type, 3)
    /\ ok
    /\ Len(message[1].value) = 8
    /\ message[1].value[6].kind = "Fixed64"

(* The field whose tag begins at |u|, in a sequence of its own; << >> when *)
(* no tag begins there or no value that looks valid follows it.            *)
FieldAt(bytes, u, last, nesting_level) ==
    With(MaybeParseTag(bytes, u, last),
         LAMBDA found :
           IF found.tag_end = NULLPTR THEN << >>
           ELSE SpanOfField(bytes, found, last, nesting_level))

(* C25: the permissive scan gives up one byte for a tag whose value is not *)
(* valid and searches from the next: no byte of a span of bytes that are   *)
(* no field begins a tag with a valid value, the bytes of a tag given up   *)
(* included, and every field span is the field of the tag at its begin.    *)
RollbackByOneByte ==
    Scanned(TRUE)
    => \A j \in 1..Len(message) :
         IF message[j].kind = "WireSpan"
         THEN \A u \in message[j].begin..(message[j].end - 1) :
                FieldAt(buffer, u, Len(buffer), 0) = << >>
         ELSE FieldAt(buffer, message[j].begin, Len(buffer), 0) = << message[j] >>

(* A tag of five bytes begins at offset 1 and no valid value follows it;   *)
(* the field found begins at offset 5, the last byte of that tag.          *)
RollbackByOneByteWitness ==
    /\ Scanned(TRUE)
    /\ buffer = << 136, 128, 128, 128, 128, 13, 136, 128, 128, 128, 128 >>
    /\ MaybeParseTag(buffer, 1, Len(buffer)).tag_end = 6
    /\ FieldAt(buffer, 1, Len(buffer), 0) = << >>
    /\ Len(message) = 3
    /\ message[1] = WireSpan(0, 5)
    /\ message[2].kind = "Fixed32" /\ message[2].begin = 5 /\ message[2].end = 10
    /\ message[3] = WireSpan(10, 11)

(* C26: no two spans next to each other in the list of a permissive scan   *)
(* are both spans of bytes that are no field.                              *)
NoAdjacentWireSpans ==
    Scanned(TRUE)
    => \A j \in 1..(Len(message) - 1) :
         ~(message[j].kind = "WireSpan" /\ message[j + 1].kind = "WireSpan")

(* A byte that is no tag and the tag of a varint with no value, given up   *)
(* apart, are one span.                                                    *)
NoAdjacentWireSpansWitness ==
    /\ Scanned(TRUE)
    /\ buffer = << 0, 8 >>
    /\ message = << WireSpan(0, 2) >>

(* Where the payload of a length-delimited field span begins. *)
PayloadBegin(bytes, span) ==
    ParseVarint(bytes, MaybeParseTag(bytes, span.begin, span.end).tag_end, span.end, 64).p

(* Every length-delimited span of |spans|, scanned |depth| messages deep,  *)
(* is a MessageSpan of the strict scan of its payload when the depth is    *)
(* under the limit and that scan finds a field, its fields covering the    *)
(* payload and classified the same way, and a BytesSpan otherwise.         *)
RECURSIVE ClassifiedByStrictScan(_, _, _)
ClassifiedByStrictScan(bytes, spans, depth) ==
    \A j \in 1..Len(spans) :
      (spans[j].kind \in {"BytesSpan", "MessageSpan"})
      => With(IF depth < kMaxMessageNestingDepth
              THEN ScanWhile(bytes, PayloadBegin(bytes, spans[j]), spans[j].end,
                             depth + 1, FALSE, << >>)
              ELSE << >>,
              LAMBDA fields :
                IF fields = << >>
                THEN /\ spans[j].kind = "BytesSpan"
                     /\ spans[j].value = PayloadBegin(bytes, spans[j])
                ELSE /\ spans[j].kind = "MessageSpan"
                     /\ spans[j].value = fields
                     /\ Partition(spans[j].value, PayloadBegin(bytes, spans[j]),
                                  spans[j].end)
                     /\ \A i \in 1..Len(spans[j].value) :
                          spans[j].value[i].kind # "WireSpan"
                     /\ ClassifiedByStrictScan(bytes, spans[j].value, depth + 1))

(* C27: a length-delimited field whose length fits is a MessageSpan when   *)
(* the strict scan of its payload, one message deeper, finds a field, and  *)
(* a BytesSpan otherwise, a payload of no bytes and one at the limit of    *)
(* the nesting included; the fields of a MessageSpan are fields alone and  *)
(* cover the payload.                                                      *)
LengthDelimitedClassification ==
    (op \in {"ScanForMessageFields", "ScanForMessageFieldsRecursively"})
    => ClassifiedByStrictScan(buffer, message, cursor)

(* The payload 8 2 of a length-delimited field is a message of one varint  *)
(* field.                                                                  *)
LengthDelimitedClassificationWitness ==
    /\ Scanned(FALSE)
    /\ buffer = << 10, 2, 8, 2 >>
    /\ Len(message) = 1
    /\ message[1].kind = "MessageSpan"
    /\ Len(message[1].value) = 1
    /\ message[1].value[1].kind = "VarintSpan"
    /\ message[1].value[1].begin = 2

(* C28: when the strict scan of the bytes returns spans, the permissive    *)
(* scan of them returns the same spans, none of bytes that are no field.   *)
PermissiveAgreesWithStrict ==
    (Scanned(TRUE) /\ ScanForMessageFields(buffer, 0, Len(buffer), FALSE) # << >>)
    => /\ message = ScanForMessageFields(buffer, 0, Len(buffer), FALSE)
       /\ \A j \in 1..Len(message) : message[j].kind # "WireSpan"

(* The permissive scan of a serialized Message of eight scalar fields has  *)
(* returned the eight field spans of the strict scan.                      *)
PermissiveAgreesWithStrictWitness ==
    /\ Scanned(TRUE)
    /\ HoldsOneMessage
    /\ type = TMessage("Scalars")
    /\ source = Sample(type, 3)
    /\ Len(message) = 8
    /\ message = ScanForMessageFields(buffer, 0, Len(buffer), FALSE)

----------------------------------------------------------------------------
(* BytesSpan: the payload of a length-delimited field, and the number of   *)
(* UTF-8 characters its constructor counts in it.  A byte is a number of   *)
(* 0..255, a pointer an offset into the payload.                           *)

(* The length of the payloads counted. *)
MaxUtf8Bytes == 4

(* The second, third or fourth byte of a sequence: |p| is not |end| and    *)
(* the byte at |p| starts with the bits 10.                                *)
StartsWithBits10(bytes, p, last) == p < last /\ bytes[p + 1] \div 64 = 2

(* The loop of ComputeUtf8CharacterCount from the byte at |p| on.  The     *)
(* value of a three-byte sequence is a uint16_t, and the lead byte shifted *)
(* left by 12 is cast to it; the value of a four-byte sequence is a        *)
(* uint32_t, and the lead byte is cast to it and shifted left by 18 with   *)
(* none of its bits masked (255 * 2^18 is less than 2^32, none is lost).   *)
(* The bits or-ed into a value are                                         *)
(* disjoint, so that the or is a sum.                                      *)
RECURSIVE ComputeUtf8CharacterCountFrom(_, _, _, _)
ComputeUtf8CharacterCountFrom(bytes, p, last, char_count) ==
    IF ~(p < last) THEN char_count
    ELSE LET lead == bytes[p + 1]
         IN  IF lead \div 128 = 0
             THEN ComputeUtf8CharacterCountFrom(bytes, p + 1, last, char_count)
             ELSE IF (lead >= 128 /\ lead <= 193) \/ lead >= 245
             THEN -char_count
             ELSE IF lead \div 32 = 6
             THEN IF ~StartsWithBits10(bytes, p + 1, last) THEN -char_count
                  ELSE ComputeUtf8CharacterCountFrom(bytes, p + 2, last, char_count - 1)
             ELSE IF lead \div 16 = 14
             THEN IF ~StartsWithBits10(bytes, p + 1, last) THEN -char_count
                  ELSE IF ~StartsWithBits10(bytes, p + 2, last) THEN -char_count
                  ELSE LET value == ((lead * 4096) % 65536)
                                    + (bytes[p + 2] % 64) * 64
                                    + (bytes[p + 3] % 64)
                       IN  IF value < 2048 \/ (value >= 55296 /\ value <= 57343)
                           THEN -char_count
                           ELSE ComputeUtf8CharacterCountFrom(bytes, p + 3, last,
                                                              char_count - 2)
             ELSE IF lead \div 8 = 30
             THEN IF ~StartsWithBits10(bytes, p + 1, last) THEN -char_count
                  ELSE IF ~StartsWithBits10(bytes, p + 2, last) THEN -char_count
                  ELSE IF ~StartsWithBits10(bytes, p + 3, last) THEN -char_count
                  ELSE LET value == (lead * 262144)
                                    + (bytes[p + 2] % 64) * 4096
                                    + (bytes[p + 3] % 64) * 64
                                    + (bytes[p + 4] % 64)
                       IN  IF value < 65536 \/ value > 1114111
                           THEN -char_count
                           ELSE ComputeUtf8CharacterCountFrom(bytes, p + 4, last,
                                                              char_count - 3)
             ELSE ComputeUtf8CharacterCountFrom(bytes, p + 1, last, char_count)

(* BytesSpan::ComputeUtf8CharacterCount(begin, end) on the bytes of        *)
(* |bytes| from offset |begin| to offset |last|.                           *)
ComputeUtf8CharacterCount(bytes, begin, last) ==
    ComputeUtf8CharacterCountFrom(bytes, begin, last, last - begin)

(* The bytes of the payloads: an ASCII letter; the bytes 8F, 90, 9F and A0 *)
(* that start with the bits 10 and lie on either side of the bounds of the *)
(* second byte after E0, ED, F0 and F4; the first bytes C2 of two bytes,   *)
(* E0, ED and EE of three, F0, F1 and F4 of four; the first bytes C1 and   *)
(* F5 that start no sequence.                                              *)
Utf8Bytes == {65, 143, 144, 159, 160, 193, 194, 224, 237, 238, 240, 241, 244, 245}

(* No BytesSpan yet. *)
InitUtf8 ==
    /\ op = "init"
    /\ type = TMessage("EmptyMessage")
    /\ target = TMessage("EmptyMessage")
    /\ source = << >>
    /\ size = NotComputed
    /\ fields_size = NotComputed
    /\ buffer = << >>
    /\ message = << >>
    /\ before = << >>
    /\ merges = 0
    /\ buffer_end = 0
    /\ ok = TRUE
    /\ end = 0
    /\ frames = << >>
    /\ cursor = 0
    /\ declared = 0
    /\ undeclared = 0

(* BytesSpan(begin, end, field_number, bytes_begin) over a payload of one  *)
(* byte more: |buffer| is the payload from bytes_begin to end, and |size|  *)
(* the utf8_char_count_ the constructor stores.                            *)
NewBytesSpan ==
    /\ Len(buffer) < MaxUtf8Bytes
    /\ \E byte \in Utf8Bytes :
          /\ buffer' = Append(buffer, byte)
          /\ size' = ComputeUtf8CharacterCount(Append(buffer, byte), 0, Len(buffer) + 1)
    /\ buffer_end' = Len(buffer) + 1
    /\ op' = "BytesSpan"
    /\ UNCHANGED << type, target, source, fields_size, message, before, merges, ok, end,
                    frames, cursor, declared, undeclared >>

SpecUtf8 == InitUtf8 /\ [][NewBytesSpan]_vars

(* There is a byte at index |i| of |bytes| and it lies in lo..hi. *)
ByteInRange(bytes, i, lo, hi) == i <= Len(bytes) /\ bytes[i] >= lo /\ bytes[i] <= hi

(* The number of bytes of the well-formed UTF-8 sequence that starts at    *)
(* index |i| of |bytes|, or 0 when none does: one byte of 00..7F; two      *)
(* bytes for U+0080..U+07FF; three for U+0800..U+FFFF without the          *)
(* surrogates U+D800..U+DFFF; four for U+10000..U+10FFFF.                  *)
WellFormedSequenceLength(bytes, i) ==
    LET first == bytes[i]
        Trails(j) == ByteInRange(bytes, j, 128, 191)
    IN  IF first <= 127 THEN 1
        ELSE IF first >= 194 /\ first <= 223 /\ Trails(i + 1) THEN 2
        ELSE IF first = 224 /\ ByteInRange(bytes, i + 1, 160, 191) /\ Trails(i + 2) THEN 3
        ELSE IF first = 237 /\ ByteInRange(bytes, i + 1, 128, 159) /\ Trails(i + 2) THEN 3
        ELSE IF first \in ((225..236) \cup {238, 239}) /\ Trails(i + 1) /\ Trails(i + 2) THEN 3
        ELSE IF first = 240 /\ ByteInRange(bytes, i + 1, 144, 191) /\ Trails(i + 2) /\ Trails(i + 3) THEN 4
        ELSE IF first \in 241..243 /\ Trails(i + 1) /\ Trails(i + 2) /\ Trails(i + 3) THEN 4
        ELSE IF first = 244 /\ ByteInRange(bytes, i + 1, 128, 143) /\ Trails(i + 2) /\ Trails(i + 3) THEN 4
        ELSE 0

(* The number of characters that |bytes| encode from index |i| on, or -1   *)
(* when the bytes from there on are not well-formed UTF-8.                 *)
RECURSIVE EncodedCharacters(_, _)
EncodedCharacters(bytes, i) ==
    IF i > Len(bytes) THEN 0
    ELSE IF WellFormedSequenceLength(bytes, i) = 0 THEN -1
    ELSE With(EncodedCharacters(bytes, i + WellFormedSequenceLength(bytes, i)),
              LAMBDA rest : IF rest < 0 THEN -1 ELSE rest + 1)

(* C21: for every byte string, ComputeUtf8CharacterCount returns the       *)
(* number of encoded characters (at least 0) if the bytes are well-formed  *)
(* UTF-8 (sequences of one, two, three and four bytes, no overlong         *)
(* encoding, no surrogate, nothing above U+10FFFF), and a negative value   *)
(* if and only if the bytes are not well-formed.                           *)
Utf8CharacterCount ==
    op = "BytesSpan"
        => IF EncodedCharacters(buffer, 1) >= 0
           THEN size = EncodedCharacters(buffer, 1)
           ELSE size < 0

(* C21, what the code does: the count is the number of encoded characters  *)
(* when the bytes are well-formed UTF-8 and hold no sequence of four       *)
(* bytes, and negative otherwise; a well-formed string that holds a        *)
(* sequence of four bytes is counted as not well-formed.                   *)
Utf8CharacterCountWithoutFourByteSequences ==
    op = "BytesSpan"
        => IF EncodedCharacters(buffer, 1) >= 0 /\ \A i \in 1..Len(buffer) : buffer[i] < 240
           THEN size = EncodedCharacters(buffer, 1)
           ELSE size < 0

(* U+1F40F as F0 9F 90 8F, one character in well-formed UTF-8, is counted  *)
(* as -4.                                                                  *)
Utf8CharacterCountWitness ==
    /\ op = "BytesSpan"
    /\ buffer = << 240, 159, 144, 143 >>
    /\ EncodedCharacters(buffer, 1) = 1
    /\ size = -4

----------------------------------------------------------------------------
(* The renderer, checked under SpecInspect.  In a state of op = "Print"    *)
(* |message| is the spans printed (the first begins at offset 0), |end|    *)
(* the limit, |cursor| the number of bytes of a row and |frames| the lines *)
(* written.                                                                *)

(* The row offset that the eight digits of the address column of |line|   *)
(* read as.                                                                *)
RowOffsetOf(line) ==
    line.address[8] + 16 * line.address[7] + 256 * line.address[6]
    + 4096 * line.address[5] + 65536 * line.address[4] + 1048576 * line.address[3]
    + 16777216 * line.address[2] + 268435456 * line.address[1]

(* The byte at offset |o| of |bytes| is in the hex column of a line of     *)
(* |lines|: the slot of its place in a row holds its two digits.           *)
HexDumped(lines, bytes, o) ==
    \E i \in 1..Len(lines) :
       /\ (o - RowOffsetOf(lines[i]) + 1) \in 1..Len(lines[i].hex)
       /\ lines[i].hex[o - RowOffsetOf(lines[i]) + 1]
            = << bytes[o + 1] \div 16, bytes[o + 1] % 16 >>

(* The offset of the first byte of the row of the byte at offset |o|. *)
RowOf(o, bytes_per_line) == (o \div bytes_per_line) * bytes_per_line

(* Where the tag and the length of a MessageSpan end. *)
LengthEnd(span) == IF span.value = << >> THEN span.end ELSE span.value[1].begin

(* What the statements below use of a span: its kind and bounds, and for a *)
(* MessageSpan where its tag and length end and the least offset one of    *)
(* its fields begins at or after (the end of the span when it has none).   *)
Outline(span) ==
    [kind |-> span.kind, begin |-> span.begin, end |-> span.end,
     length_end |-> IF span.kind = "MessageSpan" THEN LengthEnd(span) ELSE span.begin,
     last_field |-> IF span.kind = "MessageSpan" /\ span.value # << >>
                    THEN span.value[Len(span.value)].begin ELSE span.begin]

(* The outlines of the spans of |spans| and of the MessageSpans among them *)
(* that begin before |limit|, and with |top| of every MessageSpan of       *)
(* |spans| itself.                                                         *)
RECURSIVE BeginBefore(_, _, _)
BeginBefore(spans, limit, top) ==
    UNION { IF spans[i].kind = "MessageSpan"
            THEN IF top \/ spans[i].begin < limit
                 THEN {Outline(spans[i])} \cup BeginBefore(spans[i].value, limit, FALSE)
                 ELSE {}
            ELSE IF spans[i].begin < limit THEN {Outline(spans[i])} ELSE {}
          : i \in 1..Len(spans) }

====
